---------------------------- MODULE Spec2Model ----------------------------
(***************************************************************************)
(* A model of the currency-detection and page-rewriting core of the        *)
(* currency-converter extension:                                           *)
(*   - src/src/content/currency-detector.js  (parseNumber, detectCurrency) *)
(*   - src/src/content/page-scanner.js       (PageScanner)                 *)
(*   - src/src/content/content.js            (processSelection)            *)
(*   - src/unnamed/part_002                  (the constants tables)        *)
(*                                                                         *)
(* Text is a sequence of characters.  A character is a one-character       *)
(* string; a character outside ASCII is written by its code point          *)
(* ("U20AC" is the euro sign).                                             *)
(***************************************************************************)
EXTENDS Integers, Sequences, FiniteSets, TLC

(***************************************************************************)
(* Generic helpers.                                                        *)
(***************************************************************************)
Range(s) == {s[k] : k \in DOMAIN s}

Min(S) == CHOOSE x \in S : \A y \in S : x <= y

\* The sequence s written out as a tuple of its elements.
Tuple(s) == s \o <<>>

RECURSIVE FlattenFrom(_, _)
FlattenFrom(ss, k) == IF k > Len(ss) THEN <<>> ELSE ss[k] \o FlattenFrom(ss, k + 1)
\* The concatenation of the sequences of ss.
Flatten(ss) == FlattenFrom(Tuple(ss), 1)

\* The index of the first element of s that satisfies P, 0 if none does.
FirstIndex(s, P(_)) ==
  LET hits == {k \in DOMAIN s : P(s[k])}
  IN  IF hits = {} THEN 0 ELSE Min(hits)


(***************************************************************************)
(* Characters.                                                             *)
(***************************************************************************)
DigitSet == {"0", "1", "2", "3", "4", "5", "6", "7", "8", "9"}
UpperSet == {"A", "B", "C", "D", "E", "F", "G", "H", "I", "J", "K", "L", "M",
             "N", "O", "P", "Q", "R", "S", "T", "U", "V", "W", "X", "Y", "Z"}
LowerSet == {"a", "b", "c", "d", "e", "f", "g", "h", "i", "j", "k", "l", "m",
             "n", "o", "p", "q", "r", "s", "t", "u", "v", "w", "x", "y", "z"}
\* What \s and String.prototype.trim take for white space (the part of it the
\* inputs use): space, line feed, tab, no-break space.
WhiteSpace == {" ", "LF", "TAB", "U00A0"}

LowerOf == [A |-> "a", B |-> "b", C |-> "c", D |-> "d", E |-> "e", F |-> "f",
            G |-> "g", H |-> "h", I |-> "i", J |-> "j", K |-> "k", L |-> "l",
            M |-> "m", N |-> "n", O |-> "o", P |-> "p", Q |-> "q", R |-> "r",
            S |-> "s", T |-> "t", U |-> "u", V |-> "v", W |-> "w", X |-> "x",
            Y |-> "y", Z |-> "z"]
LetterIndex ==
  [a |-> 1, b |-> 2, c |-> 3, d |-> 4, e |-> 5, f |-> 6, g |-> 7, h |-> 8,
   i |-> 9, j |-> 10, k |-> 11, l |-> 12, m |-> 13, n |-> 14, o |-> 15,
   p |-> 16, q |-> 17, r |-> 18, s |-> 19, t |-> 20, u |-> 21, v |-> 22,
   w |-> 23, x |-> 24, y |-> 25, z |-> 26]
LowerAlpha == <<"a", "b", "c", "d", "e", "f", "g", "h", "i", "j", "k", "l", "m",
                "n", "o", "p", "q", "r", "s", "t", "u", "v", "w", "x", "y", "z">>
UpperOf == [a |-> "A", b |-> "B", c |-> "C", d |-> "D", e |-> "E", f |-> "F",
            g |-> "G", h |-> "H", i |-> "I", j |-> "J", k |-> "K", l |-> "L",
            m |-> "M", n |-> "N", o |-> "O", p |-> "P", q |-> "Q", r |-> "R",
            s |-> "S", t |-> "T", u |-> "U", v |-> "V", w |-> "W", x |-> "X",
            y |-> "Y", z |-> "Z"]

IsDigit(c) == c \in DigitSet
IsUpper(c) == c \in UpperSet
IsLower(c) == c \in LowerSet
IsSpace(c) == c \in WhiteSpace
\* \w of a regular expression without the u flag
IsWordChar(c) == IsDigit(c) \/ IsUpper(c) \/ IsLower(c) \/ c = "_"

DigitVal(c) ==
  CASE c = "0" -> 0 [] c = "1" -> 1 [] c = "2" -> 2 [] c = "3" -> 3 [] c = "4" -> 4
    [] c = "5" -> 5 [] c = "6" -> 6 [] c = "7" -> 7 [] c = "8" -> 8 [] c = "9" -> 9

ToLowerChar(c) == IF IsUpper(c) THEN LowerOf[c] ELSE c
ToUpperChar(c) == IF IsLower(c) THEN UpperOf[c] ELSE c
\* (built element by element, so that the result is a plain sequence)
RECURSIVE ToLowerCase(_)
ToLowerCase(s) ==
  IF s = <<>> THEN <<>> ELSE <<ToLowerChar(Head(s))>> \o ToLowerCase(Tail(s))
RECURSIVE ToUpperCase(_)
ToUpperCase(s) ==
  IF s = <<>> THEN <<>> ELSE <<ToUpperChar(Head(s))>> \o ToUpperCase(Tail(s))

RECURSIVE TrimStart(_)
TrimStart(s) == IF s # <<>> /\ IsSpace(Head(s)) THEN TrimStart(Tail(s)) ELSE s
RECURSIVE TrimEnd(_)
TrimEnd(s) ==
  IF s # <<>> /\ IsSpace(s[Len(s)]) THEN TrimEnd(SubSeq(s, 1, Len(s) - 1)) ELSE s
Trim(s) == TrimEnd(TrimStart(s))

\* s.replace(/x/g, '') for a set of characters
RemoveAll(s, cs) == SelectSeq(s, LAMBDA c : c \notin cs)
\* s.replace(from, to) with a string pattern: the first occurrence only
ReplaceFirst(s, from, to) ==
  LET k == FirstIndex(s, LAMBDA c : c = from)
  IN  IF k = 0 THEN s ELSE [s EXCEPT ![k] = to]
\* s.lastIndexOf(c), 1-based, 0 for "not found"
LastIndexOf(s, c) ==
  LET hits == {k \in DOMAIN s : s[k] = c}
  IN  IF hits = {} THEN 0 ELSE CHOOSE k \in hits : \A j \in hits : j <= k

\* Whether t holds w at position p (1-based).
StartsAt(t, p, w) ==
  /\ p >= 1
  /\ p + Len(w) - 1 <= Len(t)
  /\ w = <<>> \/ t[p] = w[1]
  /\ SubSeq(t, p, p + Len(w) - 1) = w

\* t.indexOf(w), 1-based, 0 for "not found"
IndexOf(t, w) ==
  LET hits == {p \in 1..(Len(t) + 1) : StartsAt(t, p, w)}
  IN  IF hits = {} THEN 0 ELSE Min(hits)

EndsWith(t, w) == Len(w) <= Len(t) /\ SubSeq(t, Len(t) - Len(w) + 1, Len(t)) = w

(***************************************************************************)
(* The constants tables (src/unnamed/part_002).                            *)
(***************************************************************************)
CURRENCY_SYMBOLS ==
  << [sym |-> <<"$">>, codes |-> <<"USD", "AUD", "CAD", "NZD", "SGD", "HKD">>],
     [sym |-> <<"U20AC">>, codes |-> <<"EUR">>],
     [sym |-> <<"U00A3">>, codes |-> <<"GBP">>],
     [sym |-> <<"U00A5">>, codes |-> <<"JPY", "CNY">>],
     [sym |-> <<"U20B9">>, codes |-> <<"INR">>],
     [sym |-> <<"U20A9">>, codes |-> <<"KRW">>],
     [sym |-> <<"k", "r">>, codes |-> <<"SEK", "NOK", "DKK", "ISK">>],
     [sym |-> <<"F", "r">>, codes |-> <<"CHF">>],
     [sym |-> <<"z", "U0142">>, codes |-> <<"PLN">>],
     [sym |-> <<"F", "t">>, codes |-> <<"HUF">>],
     [sym |-> <<"K", "U010D">>, codes |-> <<"CZK">>],
     [sym |-> <<"l", "e", "i">>, codes |-> <<"RON">>],
     [sym |-> <<"U20BA">>, codes |-> <<"TRY">>],
     [sym |-> <<"R", "$">>, codes |-> <<"BRL">>],
     [sym |-> <<"R">>, codes |-> <<"ZAR">>],
     [sym |-> <<"U20B1">>, codes |-> <<"PHP">>],
     [sym |-> <<"U0E3F">>, codes |-> <<"THB">>],
     [sym |-> <<"R", "M">>, codes |-> <<"MYR">>],
     [sym |-> <<"R", "p">>, codes |-> <<"IDR">>],
     [sym |-> <<"U20AA">>, codes |-> <<"ILS">>],
     [sym |-> <<"M", "e", "x", "$">>, codes |-> <<"MXN">>] >>

CURRENCY_KEYWORDS ==
  << [key |-> "USD", words |-> <<<<"d", "o", "l", "l", "a", "r">>, <<"d", "o", "l", "l", "a", "r", "s">>, <<"b", "u", "c", "k">>, <<"b", "u", "c", "k", "s">>, <<"g", "r", "e", "e", "n", "b", "a", "c", "k">>, <<"g", "r", "e", "e", "n", "b", "a", "c", "k", "s">>, <<"u", "s", " ", "d", "o", "l", "l", "a", "r">>, <<"u", "s", " ", "d", "o", "l", "l", "a", "r", "s">>, <<"u", "s", "d">>>>],
     [key |-> "EUR", words |-> <<<<"e", "u", "r", "o">>, <<"e", "u", "r", "o", "s">>, <<"e", "u", "r">>>>],
     [key |-> "JPY", words |-> <<<<"y", "e", "n">>, <<"y", "e", "n", "s">>, <<"j", "p", "y">>>>],
     [key |-> "GBP", words |-> <<<<"p", "o", "u", "n", "d">>, <<"p", "o", "u", "n", "d", "s">>, <<"q", "u", "i", "d">>, <<"s", "t", "e", "r", "l", "i", "n", "g">>, <<"p", "o", "u", "n", "d", " ", "s", "t", "e", "r", "l", "i", "n", "g">>, <<"g", "b", "p">>>>],
     [key |-> "CHF", words |-> <<<<"f", "r", "a", "n", "c">>, <<"f", "r", "a", "n", "c", "s">>, <<"s", "w", "i", "s", "s", " ", "f", "r", "a", "n", "c">>, <<"s", "w", "i", "s", "s", " ", "f", "r", "a", "n", "c", "s">>, <<"s", "f", "r">>, <<"c", "h", "f">>>>],
     [key |-> "CNY", words |-> <<<<"y", "u", "a", "n">>, <<"y", "u", "a", "n", "s">>, <<"r", "e", "n", "m", "i", "n", "b", "i">>, <<"r", "m", "b">>, <<"k", "u", "a", "i">>, <<"c", "n", "y">>>>],
     [key |-> "INR", words |-> <<<<"r", "u", "p", "e", "e">>, <<"r", "u", "p", "e", "e", "s">>, <<"i", "n", "r">>>>],
     [key |-> "AUD", words |-> <<<<"a", "u", "s", "t", "r", "a", "l", "i", "a", "n", " ", "d", "o", "l", "l", "a", "r">>, <<"a", "u", "s", "t", "r", "a", "l", "i", "a", "n", " ", "d", "o", "l", "l", "a", "r", "s">>, <<"a", "u", "s", "s", "i", "e", " ", "d", "o", "l", "l", "a", "r">>, <<"a", "u", "s", "s", "i", "e", " ", "d", "o", "l", "l", "a", "r", "s">>, <<"a", "u", "d">>>>],
     [key |-> "CAD", words |-> <<<<"c", "a", "n", "a", "d", "i", "a", "n", " ", "d", "o", "l", "l", "a", "r">>, <<"c", "a", "n", "a", "d", "i", "a", "n", " ", "d", "o", "l", "l", "a", "r", "s">>, <<"l", "o", "o", "n", "i", "e">>, <<"l", "o", "o", "n", "i", "e", "s">>, <<"t", "o", "o", "n", "i", "e">>, <<"t", "o", "o", "n", "i", "e", "s">>, <<"c", "a", "d">>>>],
     [key |-> "NZD", words |-> <<<<"n", "e", "w", " ", "z", "e", "a", "l", "a", "n", "d", " ", "d", "o", "l", "l", "a", "r">>, <<"n", "e", "w", " ", "z", "e", "a", "l", "a", "n", "d", " ", "d", "o", "l", "l", "a", "r", "s">>, <<"k", "i", "w", "i">>, <<"k", "i", "w", "i", "s">>, <<"n", "z", "d">>>>],
     [key |-> "SGD", words |-> <<<<"s", "i", "n", "g", "a", "p", "o", "r", "e", " ", "d", "o", "l", "l", "a", "r">>, <<"s", "i", "n", "g", "a", "p", "o", "r", "e", " ", "d", "o", "l", "l", "a", "r", "s">>, <<"s", "g", "d">>>>],
     [key |-> "HKD", words |-> <<<<"h", "o", "n", "g", " ", "k", "o", "n", "g", " ", "d", "o", "l", "l", "a", "r">>, <<"h", "o", "n", "g", " ", "k", "o", "n", "g", " ", "d", "o", "l", "l", "a", "r", "s">>, <<"h", "k", "d">>>>],
     [key |-> "SEK", words |-> <<<<"s", "w", "e", "d", "i", "s", "h", " ", "k", "r", "o", "n", "a">>, <<"s", "e", "k">>>>],
     [key |-> "NOK", words |-> <<<<"n", "o", "r", "w", "e", "g", "i", "a", "n", " ", "k", "r", "o", "n", "e">>, <<"n", "o", "k">>>>],
     [key |-> "DKK", words |-> <<<<"d", "a", "n", "i", "s", "h", " ", "k", "r", "o", "n", "e">>, <<"d", "k", "k">>>>],
     [key |-> "ISK", words |-> <<<<"i", "c", "e", "l", "a", "n", "d", "i", "c", " ", "k", "r", "o", "n", "a">>, <<"i", "c", "e", "l", "a", "n", "d", "i", "c", " ", "k", "r", "o", "n", "u", "r">>, <<"i", "s", "k">>>>],
     [key |-> "CZK", words |-> <<<<"k", "o", "r", "u", "n", "a">>, <<"k", "o", "r", "u", "n", "a", "s">>, <<"c", "z", "e", "c", "h", " ", "k", "o", "r", "u", "n", "a">>, <<"c", "z", "k">>>>],
     [key |-> "HUF", words |-> <<<<"f", "o", "r", "i", "n", "t">>, <<"f", "o", "r", "i", "n", "t", "s">>, <<"h", "u", "f">>>>],
     [key |-> "PLN", words |-> <<<<"z", "l", "o", "t", "y">>, <<"z", "l", "o", "t", "y", "s">>, <<"p", "l", "n">>>>],
     [key |-> "RON", words |-> <<<<"l", "e", "u">>, <<"l", "e", "i">>, <<"r", "o", "m", "a", "n", "i", "a", "n", " ", "l", "e", "u">>, <<"r", "o", "n">>>>],
     [key |-> "BGN", words |-> <<<<"l", "e", "v">>, <<"l", "e", "v", "a">>, <<"b", "u", "l", "g", "a", "r", "i", "a", "n", " ", "l", "e", "v">>, <<"b", "g", "n">>>>],
     [key |-> "HRK", words |-> <<<<"k", "u", "n", "a">>, <<"k", "u", "n", "a", "s">>, <<"c", "r", "o", "a", "t", "i", "a", "n", " ", "k", "u", "n", "a">>, <<"h", "r", "k">>>>],
     [key |-> "TRY", words |-> <<<<"l", "i", "r", "a">>, <<"l", "i", "r", "a", "s">>, <<"t", "u", "r", "k", "i", "s", "h", " ", "l", "i", "r", "a">>, <<"t", "r", "y">>>>],
     [key |-> "BRL", words |-> <<<<"r", "e", "a", "l">>, <<"r", "e", "a", "i", "s">>, <<"b", "r", "a", "z", "i", "l", "i", "a", "n", " ", "r", "e", "a", "l">>, <<"b", "r", "l">>>>],
     [key |-> "MXN", words |-> <<<<"m", "e", "x", "i", "c", "a", "n", " ", "p", "e", "s", "o">>, <<"m", "e", "x", "i", "c", "a", "n", " ", "p", "e", "s", "o", "s">>, <<"m", "x", "n">>>>],
     [key |-> "PHP", words |-> <<<<"p", "h", "i", "l", "i", "p", "p", "i", "n", "e", " ", "p", "e", "s", "o">>, <<"p", "h", "i", "l", "i", "p", "p", "i", "n", "e", " ", "p", "e", "s", "o", "s">>, <<"p", "h", "p">>>>],
     [key |-> "IDR", words |-> <<<<"r", "u", "p", "i", "a", "h">>, <<"r", "u", "p", "i", "a", "h", "s">>, <<"i", "n", "d", "o", "n", "e", "s", "i", "a", "n", " ", "r", "u", "p", "i", "a", "h">>, <<"i", "d", "r">>>>],
     [key |-> "ILS", words |-> <<<<"s", "h", "e", "k", "e", "l">>, <<"s", "h", "e", "k", "e", "l", "s">>, <<"i", "s", "r", "a", "e", "l", "i", " ", "s", "h", "e", "k", "e", "l">>, <<"i", "l", "s">>>>],
     [key |-> "KRW", words |-> <<<<"w", "o", "n">>, <<"w", "o", "n", "s">>, <<"s", "o", "u", "t", "h", " ", "k", "o", "r", "e", "a", "n", " ", "w", "o", "n">>, <<"k", "r", "w">>>>],
     [key |-> "MYR", words |-> <<<<"r", "i", "n", "g", "g", "i", "t">>, <<"r", "i", "n", "g", "g", "i", "t", "s">>, <<"m", "a", "l", "a", "y", "s", "i", "a", "n", " ", "r", "i", "n", "g", "g", "i", "t">>, <<"m", "y", "r">>>>],
     [key |-> "THB", words |-> <<<<"b", "a", "h", "t">>, <<"b", "a", "h", "t", "s">>, <<"t", "h", "a", "i", " ", "b", "a", "h", "t">>, <<"t", "h", "b">>>>],
     [key |-> "ZAR", words |-> <<<<"r", "a", "n", "d">>, <<"r", "a", "n", "d", "s">>, <<"s", "o", "u", "t", "h", " ", "a", "f", "r", "i", "c", "a", "n", " ", "r", "a", "n", "d">>, <<"z", "a", "r">>>>],
     [key |-> "GENERIC_DOLLAR", words |-> <<<<"U", "S", "D">>, <<"A", "U", "D">>, <<"C", "A", "D">>, <<"N", "Z", "D">>, <<"S", "G", "D">>, <<"H", "K", "D">>>>],
     [key |-> "GENERIC_PESO", words |-> <<<<"M", "X", "N">>, <<"P", "H", "P">>>>],
     [key |-> "GENERIC_KRONA", words |-> <<<<"S", "E", "K">>, <<"I", "S", "K">>>>],
     [key |-> "GENERIC_KRONE", words |-> <<<<"N", "O", "K">>, <<"D", "K", "K">>>>],
     [key |-> "GENERIC_CROWN", words |-> <<<<"C", "Z", "K">>, <<"S", "E", "K">>, <<"N", "O", "K">>, <<"D", "K", "K">>, <<"I", "S", "K">>>>] >>

ECB_CURRENCIES ==
  << "EUR", "USD", "JPY", "GBP", "CHF", "AUD", "CAD", "NZD", "SEK", "NOK", "DKK", "ISK", "CZK", "HUF", "PLN", "RON", "TRY", "BGN", "HRK", "BRL", "MXN", "CNY", "HKD", "IDR", "ILS", "INR", "KRW", "MYR", "PHP", "SGD", "THB", "ZAR" >>

CodeChars ==
  [ EUR |-> <<"E", "U", "R">>, USD |-> <<"U", "S", "D">>, JPY |-> <<"J", "P", "Y">>, GBP |-> <<"G", "B", "P">>, CHF |-> <<"C", "H", "F">>, AUD |-> <<"A", "U", "D">>, CAD |-> <<"C", "A", "D">>, NZD |-> <<"N", "Z", "D">>, SEK |-> <<"S", "E", "K">>, NOK |-> <<"N", "O", "K">>, DKK |-> <<"D", "K", "K">>, ISK |-> <<"I", "S", "K">>, CZK |-> <<"C", "Z", "K">>, HUF |-> <<"H", "U", "F">>, PLN |-> <<"P", "L", "N">>, RON |-> <<"R", "O", "N">>, TRY |-> <<"T", "R", "Y">>, BGN |-> <<"B", "G", "N">>, HRK |-> <<"H", "R", "K">>, BRL |-> <<"B", "R", "L">>, MXN |-> <<"M", "X", "N">>, CNY |-> <<"C", "N", "Y">>, HKD |-> <<"H", "K", "D">>, IDR |-> <<"I", "D", "R">>, ILS |-> <<"I", "L", "S">>, INR |-> <<"I", "N", "R">>, KRW |-> <<"K", "R", "W">>, MYR |-> <<"M", "Y", "R">>, PHP |-> <<"P", "H", "P">>, SGD |-> <<"S", "G", "D">>, THB |-> <<"T", "H", "B">>, ZAR |-> <<"Z", "A", "R">> ]

(***************************************************************************)
(* currency-detector.js: the tables built when the script loads.           *)
(***************************************************************************)
\* a.sort((a, b) => b.length - a.length): stable, longest first
SortByLengthDesc(s) ==
  LET maxLen == IF Len(s) = 0 THEN 0
                ELSE CHOOSE n \in {Len(x) : x \in Range(s)} :
                       \A x \in Range(s) : Len(x) <= n
  IN  Flatten([j \in 1..maxLen |->
                 SelectSeq(s, LAMBDA x : Len(x) = maxLen + 1 - j)])

\* The elements of s in order, each kept at its first occurrence.
Dedupe(s) ==
  LET idx  == [k \in DOMAIN s |-> k]
      kept == SelectSeq(idx, LAMBDA k : \A j \in 1..(k - 1) : s[j] # s[k])
  IN  Tuple([k \in DOMAIN kept |-> s[kept[k]]])

symbolKeys == [k \in DOMAIN CURRENCY_SYMBOLS |-> CURRENCY_SYMBOLS[k].sym]

sortedSymbols == SortByLengthDesc(symbolKeys)

\* The (keyword, key) pairs the forEach at lines 16-92 visits and keeps: a
\* word of three upper-case letters (the GENERIC_* rows) is skipped.
keywordPairs ==
  Flatten([e \in DOMAIN CURRENCY_KEYWORDS |->
    LET kept == SelectSeq(CURRENCY_KEYWORDS[e].words,
                          LAMBDA kw : ~(Len(kw) = 3 /\ kw = ToUpperCase(kw)))
    IN  [k \in DOMAIN kept |->
           [word |-> ToLowerCase(kept[k]), key |-> CURRENCY_KEYWORDS[e].key]]])

\* Object.keys(keywordMap): the distinct words, in insertion order
keywordKeys == Dedupe([k \in DOMAIN keywordPairs |-> keywordPairs[k].word])

keywordMap ==
  [w \in Range(keywordKeys) |->
     LET mine == SelectSeq(keywordPairs, LAMBDA p : p.word = w)
     IN  Dedupe([k \in DOMAIN mine |-> mine[k].key])]

sortedKeywords == SortByLengthDesc(keywordKeys)

\* keywordPattern, sortedKeywords.join('|'): where the text has the letter
\* LowerAlpha[k] the alternatives that can match are those that begin with
\* it, keywordPattern[k], and the engine tries them in the order of the
\* pattern.  (Every keyword begins with one of the 26 letters.)
keywordPattern ==
  Tuple([k \in DOMAIN LowerAlpha |->
           SelectSeq(sortedKeywords, LAMBDA w : w[1] = LowerAlpha[k])])

\* The alternatives of keywordPattern to try at a character c
KeywordsAt(c) == IF IsLower(c) THEN keywordPattern[LetterIndex[c]] ELSE <<>>

isoCodesSet == Range(ECB_CURRENCIES)

\* The ISO code a three-character text spells, "" if it spells none.
CodeOf(s) ==
  IF \E c \in isoCodesSet : CodeChars[c] = s
  THEN CHOOSE c \in isoCodesSet : CodeChars[c] = s
  ELSE ""

(***************************************************************************)
(* Numbers.  A parsed amount is n / 10^e, kept with no trailing zero in    *)
(* the fraction, so that equal amounts are equal values.                   *)
(***************************************************************************)
RECURSIVE Norm(_, _)
Norm(n, e) ==
  IF e > 0 /\ n % 10 = 0 THEN Norm(n \div 10, e - 1)
  ELSE [kind |-> "num", n |-> n, e |-> e]

NaN     == [kind |-> "NaN",  n |-> 0, e |-> 0]
NullNum == [kind |-> "null", n |-> 0, e |-> 0]

RECURSIVE ToNat(_)
ToNat(ds) ==
  IF ds = <<>> THEN 0
  ELSE 10 * ToNat(SubSeq(ds, 1, Len(ds) - 1)) + DigitVal(ds[Len(ds)])

\* The number of digits of t from position i on.
RECURSIVE Run(_, _)
Run(t, i) == IF i <= Len(t) /\ IsDigit(t[i]) THEN 1 + Run(t, i + 1) ELSE 0

\* parseFloat on a text of digits, '.' and ',': the longest prefix
\* digits [ '.' digits ], NaN when that prefix holds no digit.
parseFloat(s) ==
  LET ip   == Run(s, 1)
      dot  == ip + 1 <= Len(s) /\ s[ip + 1] = "."
      fp   == IF dot THEN Run(s, ip + 2) ELSE 0
      digs == SubSeq(s, 1, ip) \o SubSeq(s, ip + 2, ip + 1 + fp)
  IN  IF ip + fp = 0 THEN NaN ELSE Norm(ToNat(digs), fp)

\* A faulty parseNumber: the format is not looked at, the literal is read
\* by the US convention.
parseNumberUs(numStr, format) ==
  IF Trim(numStr) = <<>> THEN NullNum
  ELSE parseFloat(RemoveAll(RemoveAll(Trim(numStr), WhiteSpace), {","}))

\* A faulty parseNumber: the format is not looked at, the literal is read
\* by the eu convention.
parseNumberEu(numStr, format) ==
  IF Trim(numStr) = <<>> THEN NullNum
  ELSE parseFloat(ReplaceFirst(RemoveAll(RemoveAll(Trim(numStr), WhiteSpace), {"."}),
                               ",", "."))

\* parseNumber(numStr, format), lines 121-178
parseNumber(numStr, format) ==
  IF Trim(numStr) = <<>> THEN NullNum
  ELSE
    LET cleaned   == RemoveAll(Trim(numStr), WhiteSpace)
        lastDot   == LastIndexOf(cleaned, ".")
        lastComma == LastIndexOf(cleaned, ",")
        stripCommas  == RemoveAll(cleaned, {","})
        stripDots    == RemoveAll(cleaned, {"."})
    IN  IF format = "us" THEN parseFloat(stripCommas)
        ELSE IF format = "eu" THEN parseFloat(ReplaceFirst(stripDots, ",", "."))
        ELSE IF lastDot = 0 /\ lastComma = 0 THEN parseFloat(cleaned)
        ELSE IF lastDot > 0 /\ lastComma = 0 THEN
               IF Len(cleaned) - lastDot <= 2 THEN parseFloat(cleaned)
               ELSE parseFloat(stripDots)
        ELSE IF lastComma > 0 /\ lastDot = 0 THEN
               IF Len(cleaned) - lastComma <= 2
               THEN parseFloat(ReplaceFirst(cleaned, ",", "."))
               ELSE parseFloat(stripCommas)
        ELSE IF lastDot > lastComma THEN parseFloat(stripCommas)
        ELSE parseFloat(ReplaceFirst(stripDots, ",", "."))

(***************************************************************************)
(* The regular expressions of detectCurrency, matched as the engine        *)
(* matches them: leftmost start, alternatives left to right, greedy        *)
(* quantifiers giving back one step at a time.                             *)
(***************************************************************************)
\* \b between t[p-1] and t[p]
WordBoundary(t, p) ==
  LET before == p - 1 >= 1 /\ p - 1 <= Len(t) /\ IsWordChar(t[p - 1])
      after  == p >= 1 /\ p <= Len(t) /\ IsWordChar(t[p])
  IN  before # after

\* (?:[.,\s]\d{3}) at p
Group(t, p) ==
  /\ p + 3 <= Len(t)
  /\ t[p] \in {".", ","} \/ IsSpace(t[p])
  /\ IsDigit(t[p + 1]) /\ IsDigit(t[p + 2]) /\ IsDigit(t[p + 3])

RECURSIVE MaxGroups(_, _)
MaxGroups(t, p) == IF Group(t, p) THEN 1 + MaxGroups(t, p + 4) ELSE 0

\* (?:[.,]\d{1,2})? at q: the positions after it, in the order tried
DecEnds(t, q) ==
  LET one == q + 1 <= Len(t) /\ t[q] \in {".", ","} /\ IsDigit(t[q + 1])
      two == one /\ q + 2 <= Len(t) /\ IsDigit(t[q + 2])
  IN  (IF two THEN <<q + 3>> ELSE <<>>) \o (IF one THEN <<q + 2>> ELSE <<>>) \o <<q>>

\* numberPattern at i: the positions after each way it can match, in the
\* order the engine tries them.
\*   \d{1,3}(?:[.,\s]\d{3})*(?:[.,]\d{1,2})?|\d+(?:[.,]\d{1,2})?
numberPattern(t, i) ==
  LET run  == Run(t, i)
      lead == SelectSeq(<<3, 2, 1>>, LAMBDA d : d <= run)
      alt1 == Flatten([a \in DOMAIN lead |->
                LET p == i + lead[a]
                    gs == MaxGroups(t, p)
                IN  Flatten([b \in 1..(gs + 1) |-> DecEnds(t, p + 4 * (gs + 1 - b))])])
      alt2 == Flatten([a \in 1..run |-> DecEnds(t, i + (run + 1 - a))])
  IN  IF run = 0 THEN <<>> ELSE alt1 \o alt2

\* \s? at q: the positions after it, in the order tried
OptSpace(t, q) == IF q <= Len(t) /\ IsSpace(t[q]) THEN <<q + 1, q>> ELSE <<q>>

\* null, or the array String.match returns: the whole match, its two groups
\* and the index at which it starts
NoMatch == [found |-> FALSE, whole |-> <<>>, num |-> <<>>, ind |-> <<>>, index |-> 0]

Match(t, from, to, numFrom, numTo, indFrom, indTo) ==
  [found |-> TRUE,
   whole |-> SubSeq(t, from, to),
   num   |-> SubSeq(t, numFrom, numTo),
   ind   |-> SubSeq(t, indFrom, indTo),
   index |-> from]

\* The leftmost start in 1..Len(t) at which At(i) matches.
Leftmost(t, At(_)) ==
  LET starts == {i \in 1..Len(t) : At(i).found}
  IN  IF starts = {} THEN NoMatch ELSE At(Min(starts))

\* number, \s?, then an indicator chosen by IndAt(p) (the length of the
\* indicator matched at p, 0 for none)
NumberThenIndicator(t, i, IndAt(_)) ==
  IF ~IsDigit(t[i]) THEN NoMatch ELSE
  LET ends  == numberPattern(t, i)
      cands == Flatten([a \in DOMAIN ends |->
                 LET sp == OptSpace(t, ends[a])
                 IN  [b \in DOMAIN sp |-> [numEnd |-> ends[a], pos |-> sp[b]]]])
      k     == FirstIndex(cands, LAMBDA c : IndAt(c.pos) > 0)
  IN  IF k = 0 THEN NoMatch
      ELSE LET c == cands[k]
               n == IndAt(c.pos)
           IN  Match(t, i, c.pos + n - 1, i, c.numEnd - 1, c.pos, c.pos + n - 1)

\* an indicator of length n at i, \s?, then a number
IndicatorThenNumber(t, i, n) ==
  LET sp == OptSpace(t, i + n)
      k  == FirstIndex(sp, LAMBDA p : numberPattern(t, p) # <<>>)
  IN  IF n = 0 \/ k = 0 THEN NoMatch
      ELSE LET p == sp[k]
               e == Head(numberPattern(t, p))
           IN  Match(t, i, e - 1, p, e - 1, i, i + n - 1)

\* (keywordPattern)\b at p, case-insensitive (tl is t in lower case): the
\* length of the first alternative that matches
KeywordBoundaryAt(t, tl, p) ==
  IF p > Len(tl) THEN 0 ELSE
  LET alts == KeywordsAt(tl[p])
      k    == FirstIndex(alts,
                LAMBDA w : StartsAt(tl, p, w) /\ WordBoundary(t, p + Len(w)))
  IN  IF k = 0 THEN 0 ELSE Len(alts[k])

\* (numberPattern)\s?(keywordPattern)\b, flag i, tried at start i
kwAfterAt(t, tl, i) ==
  NumberThenIndicator(t, i, LAMBDA p : KeywordBoundaryAt(t, tl, p))

kwAfterRe(t) ==
  LET tl == ToLowerCase(t)
  IN  Leftmost(t, LAMBDA i : kwAfterAt(t, tl, i))

\* \b(keywordPattern)\s?(numberPattern), flag i, tried at start i
kwBeforeAt(t, tl, i) ==
  IF ~WordBoundary(t, i) THEN NoMatch ELSE
  LET alts == KeywordsAt(tl[i])
      k    == FirstIndex(alts,
                LAMBDA w : /\ StartsAt(tl, i, w)
                           /\ IndicatorThenNumber(t, i, Len(w)).found)
  IN  IF k = 0 THEN NoMatch ELSE IndicatorThenNumber(t, i, Len(alts[k]))

kwBeforeRe(t) ==
  LET tl == ToLowerCase(t)
  IN  Leftmost(t, LAMBDA i : kwBeforeAt(t, tl, i))

IsoAt(t, p) ==
  p + 2 <= Len(t) /\ IsUpper(t[p]) /\ IsUpper(t[p + 1]) /\ IsUpper(t[p + 2])

\* \b([A-Z]{3})\s?(numberPattern)
isoBeforeRe(t) ==
  Leftmost(t, LAMBDA i :
    IF WordBoundary(t, i) /\ IsoAt(t, i) THEN IndicatorThenNumber(t, i, 3) ELSE NoMatch)

\* (numberPattern)\s?([A-Z]{3})\b
isoAfterRe(t) ==
  Leftmost(t, LAMBDA i :
    NumberThenIndicator(t, i,
      LAMBDA p : IF IsoAt(t, p) /\ WordBoundary(t, p + 3) THEN 3 ELSE 0))

\* (symbol)\s?(numberPattern)
symBeforeRe(t, symbol) ==
  Leftmost(t, LAMBDA i :
    IF StartsAt(t, i, symbol) THEN IndicatorThenNumber(t, i, Len(symbol)) ELSE NoMatch)

\* (numberPattern)\s?(symbol)
symAfterRe(t, symbol) ==
  Leftmost(t, LAMBDA i :
    NumberThenIndicator(t, i, LAMBDA p : IF StartsAt(t, p, symbol) THEN Len(symbol) ELSE 0))

(***************************************************************************)
(* identifyCurrencies and detectCurrency.  tab is CURRENCY_SYMBOLS as it   *)
(* is when the call is made.                                               *)
(***************************************************************************)
\* The array identifyCurrencies returns, and which object it is: ref = k > 0
\* says it is the very array held by row k of CURRENCY_SYMBOLS (line 188
\* returns it without copying), ref = 0 an array no table row holds.  (The
\* arrays of keywordMap all have one element: see keywordPairs.)
identifyCurrencies(symbolOrCode, tab) ==
  LET k     == FirstIndex(tab, LAMBDA row : row.sym = symbolOrCode)
      lower == ToLowerCase(symbolOrCode)
  IN  IF k > 0 THEN [list |-> tab[k].codes, ref |-> k]
      ELSE IF CodeOf(symbolOrCode) # "" THEN [list |-> <<CodeOf(symbolOrCode)>>, ref |-> 0]
      ELSE IF lower \in DOMAIN keywordMap THEN [list |-> keywordMap[lower], ref |-> 0]
      ELSE [list |-> <<>>, ref |-> 0]

\* null
NoDetection == [none |-> TRUE]

\* A faulty acceptance test: zero counts as an amount (amount >= 0).
AmountOkZero(amount) == amount.kind = "num" /\ amount.n >= 0

\* amount != null && amount > 0
AmountOk(amount) == amount.kind = "num" /\ amount.n > 0

\* The body of each "if (match) { ... }" of the keyword and symbol strategies.
Accept(m, numberFormat, tab) ==
  IF ~m.found THEN NoDetection
  ELSE LET amount     == parseNumber(m.num, numberFormat)
           currencies == identifyCurrencies(m.ind, tab)
       IN  IF AmountOk(amount) /\ Len(currencies.list) > 0
           THEN [amount     |-> amount,
                 currencies |-> currencies.list,
                 original   |-> m.whole,
                 symbol     |-> m.ind,
                 ref        |-> currencies.ref]
           ELSE NoDetection

\* The body of each "if (isoBefore) { ... }" of the ISO strategy.
AcceptIso(m, numberFormat) ==
  IF ~m.found \/ CodeOf(m.ind) = "" THEN NoDetection
  ELSE LET amount == parseNumber(m.num, numberFormat)
       IN  IF AmountOk(amount)
           THEN [amount     |-> amount,
                 currencies |-> <<CodeOf(m.ind)>>,
                 original   |-> m.whole,
                 symbol     |-> m.ind,
                 ref        |-> 0]
           ELSE NoDetection

OrElse(a, b) == IF a # NoDetection THEN a ELSE b

\* 1. keywords: number before keyword, then keyword before number
keywordStrategy(trimmed, numberFormat, tab) ==
  IF Len(sortedKeywords) = 0 THEN NoDetection
  ELSE OrElse(Accept(kwAfterRe(trimmed), numberFormat, tab),
              Accept(kwBeforeRe(trimmed), numberFormat, tab))

\* 2. ISO codes: code before number, then number before code
isoStrategy(trimmed, numberFormat) ==
  OrElse(AcceptIso(isoBeforeRe(trimmed), numberFormat),
         AcceptIso(isoAfterRe(trimmed), numberFormat))

\* 3. symbols, longest first: the loop "symbol before number" from symbol k
\*    on, then the loop "number before symbol"
RECURSIVE symbolBeforeLoop(_, _, _, _)
symbolBeforeLoop(trimmed, numberFormat, tab, k) ==
  IF k > Len(sortedSymbols) THEN NoDetection
  ELSE OrElse(Accept(symBeforeRe(trimmed, sortedSymbols[k]), numberFormat, tab),
              symbolBeforeLoop(trimmed, numberFormat, tab, k + 1))

RECURSIVE symbolAfterLoop(_, _, _, _)
symbolAfterLoop(trimmed, numberFormat, tab, k) ==
  IF k > Len(sortedSymbols) THEN NoDetection
  ELSE OrElse(Accept(symAfterRe(trimmed, sortedSymbols[k]), numberFormat, tab),
              symbolAfterLoop(trimmed, numberFormat, tab, k + 1))

symbolStrategy(trimmed, numberFormat, tab) ==
  OrElse(symbolBeforeLoop(trimmed, numberFormat, tab, 1),
         symbolAfterLoop(trimmed, numberFormat, tab, 1))

detectCurrency(text, numberFormat, tab) ==
  IF text = <<>> \/ Len(text) > 200 THEN NoDetection
  ELSE LET trimmed == Trim(text)
       IN  OrElse(keywordStrategy(trimmed, numberFormat, tab),
           OrElse(isoStrategy(trimmed, numberFormat),
                  symbolStrategy(trimmed, numberFormat, tab)))
(***************************************************************************)
(* The state.                                                              *)
(***************************************************************************)
VARIABLES
  currencySymbols,  \* CURRENCY_SYMBOLS as it is now: row k holds the array of symbol k
  selText,          \* window.getSelection().toString()
  formatSetting,    \* settings.numberFormat of the selection flow
  detections,       \* the Detections detectCurrency returned, in call order
  lastDetection     \* content.js: lastDetection

VARIABLES
  CurrencyDetector, \* CurrencyDetector.detectCurrency, as a table: by format, by text
  document,         \* the nodes ever created, by node number; node 1 is document.body
  isEnabled,        \* page-scanner.js:8
  settings,         \* page-scanner.js:9
  rates,            \* page-scanner.js:10
  replacementCount, \* page-scanner.js:11
  observer,         \* page-scanner.js:12: TRUE when a MutationObserver is connected
  isScanning,       \* page-scanner.js:13
  watchers,         \* the closures of setupMutationObserver: pendingNodes, debounceTimer (and notified, history)
  mutationRecords,  \* the added nodes of the records the observer has yet to deliver
  listeners,        \* the animationend listeners that have not run
  initialised,      \* content.js has called PageScanner.init
  pageOps,          \* the number of changes the page has made to the document
  updates,          \* the number of calls of updateSettings
  happened          \* what the last handler did (history)

detectVars == <<currencySymbols, selText, formatSetting, detections, lastDetection>>

scanVars == <<CurrencyDetector, document, isEnabled, settings, rates, replacementCount, observer,
              isScanning, watchers, mutationRecords, listeners, initialised,
              pageOps, updates, happened>>

VARIABLES
  currentDetection, \* service-worker.js:185
  contextMenu,      \* the items of chrome.contextMenus, in the order they were created
  storedSettings,   \* chrome.storage.sync: the value under STORAGE_KEYS.SETTINGS
  cachedRates,      \* what getCachedRates() resolves to
  handlers,         \* the async handlers of the service worker that are suspended at an await
  handlerCalls,     \* the number of events the service worker has handled
  tabMessages,      \* the show-conversion messages sent to the tab
  reordered         \* the last call of reorderCurrencies and what it returned (history)

workerVars == <<currentDetection, contextMenu, storedSettings, cachedRates, handlers,
                handlerCalls, tabMessages, reordered>>

VARIABLES
  numberText,          \* the literal handed to parseNumber
  parseFormat,          \* the number format handed to parseNumber
  parsed            \* what the calls of parseNumber returned, in call order (history)

parseVars == <<numberText, parseFormat, parsed>>

VARIABLES
  geometry,         \* what getBoundingClientRect and getComputedStyle report for a replaced region
  style,            \* element.style of the replaced region: fontSize, whiteSpace
  adjustCalls       \* the number of calls of adjustSizeIntelligently

layoutVars == <<geometry, style, adjustCalls>>

VARIABLES
  candidateList,    \* detection.currencies: the candidate codes of a detected price
  dollarSetting,    \* settings.defaultDollarCurrency, "" when it is unset
  resolutions       \* what the scanner and the service worker chose for them (history)

resolveVars == <<candidateList, dollarSetting, resolutions>>

otherVars == <<workerVars, parseVars, layoutVars, resolveVars>>

vars == <<detectVars, scanVars, otherVars>>

(***************************************************************************)
(* The document (page-scanner.js works on the DOM).  A document is the     *)
(* sequence of the nodes ever created; a node is known by its index.       *)
(* "before" and "countBefore" of a converted element are history: what the *)
(* region read, and what replacementCount was, before its conversion; so   *)
(* is "written", which tells the texts the scanner wrote for a converted   *)
(* amount.                                                                 *)
(***************************************************************************)
documentBody == 1

SKIP_TAGS == {"SCRIPT", "STYLE", "TEXTAREA", "INPUT", "CODE", "PRE",
              "NOSCRIPT", "IFRAME", "OBJECT", "EMBED", "SVG", "CANVAS"}

REPLACED_CLASS == "cc-auto-replaced"

FADING_CLASS == "cc-fading-out"

\* A class that matches the selector of scanCompositeElements.
PRICE_CLASS == "price"

TOOLTIP_ID == "currency-converter-tooltip"

NoAmount == [kind |-> "null", num |-> 0, den |-> 1]

\* dataset of an element that carries no record
NoDataset == [original |-> <<>>, fromCurrency |-> ""]

\* document.createElement(tag) with className cls, under parentNode p;
\* frozen tells whether a write to the children of the node throws
Element(tag, cls, p) ==
  [nodeType |-> "ELEMENT", tagName |-> tag, id |-> "", classList |-> cls,
   data |-> <<>>, childNodes |-> <<>>, parentNode |-> p,
   dataset |-> NoDataset, before |-> <<>>,
   countBefore |-> 0, written |-> FALSE, frozen |-> FALSE]

\* document.createTextNode(t), under parentNode p
TextNode(t, p) ==
  [nodeType |-> "TEXT", tagName |-> "", id |-> "", classList |-> {},
   data |-> t, childNodes |-> <<>>, parentNode |-> p,
   dataset |-> NoDataset, before |-> <<>>,
   countBefore |-> 0, written |-> FALSE, frozen |-> FALSE]

\* n.parentElement, n.parentElement.parentElement, ...
RECURSIVE Ancestors(_, _)
Ancestors(d, n) ==
  IF d[n].parentNode = 0 THEN <<>>
  ELSE <<d[n].parentNode>> \o Ancestors(d, d[n].parentNode)

\* a.contains(n)
Contains(d, a, n) == a = n \/ a \in Range(Ancestors(d, n))

\* n and its descendants, in document order
RECURSIVE Subtree(_, _)
Subtree(d, n) ==
  <<n>> \o Flatten([k \in DOMAIN d[n].childNodes |-> Subtree(d, d[n].childNodes[k])])

\* n.textContent
textContent(d, n) ==
  Flatten([k \in DOMAIN Subtree(d, n) |-> d[Subtree(d, n)[k]].data])

\* root.querySelectorAll(selector): the descendants of root that carry
\* class cls, in document order
querySelectorAll(d, root, cls) ==
  SelectSeq(Tail(Subtree(d, root)), LAMBDA n : cls \in d[n].classList)

\* The children of p with child n replaced by the nodes ns.
ReplaceChild(d, p, n, ns) ==
  LET k == FirstIndex(d[p].childNodes, LAMBDA c : c = n)
  IN  SubSeq(d[p].childNodes, 1, k - 1) \o ns
        \o SubSeq(d[p].childNodes, k + 1, Len(d[p].childNodes))

\* shouldSkipNode(node), lines 533-542
shouldSkipNode(d, n) ==
  \E a \in Range(Ancestors(d, n)) :
    \/ d[a].tagName \in SKIP_TAGS
    \/ REPLACED_CLASS \in d[a].classList
    \/ d[a].id = TOOLTIP_ID

(***************************************************************************)
(* The service worker, the callers of parseNumber and the layout adjuster  *)
(* before anything has happened.                                           *)
(***************************************************************************)
\* chrome.storage.sync holds nothing under STORAGE_KEYS.SETTINGS
NoStoredSettings == [none |-> TRUE]

\* reorderCurrencies has not been called
NoReorder == [called |-> FALSE, currencies |-> <<>>, preferred |-> "", ordered |-> <<>>]

InitWorker(store, rateTable) ==
  /\ currentDetection = NoDetection
  /\ contextMenu = <<>>
  /\ storedSettings = store
  /\ cachedRates = rateTable
  /\ handlers = <<>>
  /\ handlerCalls = 0
  /\ tabMessages = <<>>
  /\ reordered = NoReorder

InitParse(literal, mode) ==
  /\ numberText = literal
  /\ parseFormat = mode
  /\ parsed = <<>>


\* element.style.fontSize: '' (the natural size), or n/d px
Natural == [px |-> FALSE, n |-> 0, d |-> 1]

\* No region has been measured.
NoGeometry == [none |-> TRUE]

InitLayout(g) ==
  /\ geometry = g
  /\ style = [fontSize |-> Natural, whiteSpace |-> ""]
  /\ adjustCalls = 0

\* No price has been resolved.
NoResolution == [scanned |-> FALSE, fromCurrency |-> "", asked |-> FALSE, ordered |-> <<>>]

InitResolve(c, p) ==
  /\ candidateList = c
  /\ dollarSetting = p
  /\ resolutions = NoResolution
(***************************************************************************)
(* PageScanner (page-scanner.js).  While a handler runs, the scanner works *)
(* on a heap: doc, the document; count, replacementCount; ls, the          *)
(* animationend listeners; recs, the mutation records of a connected       *)
(* observer (observing); log, what the handler has done so far.            *)
(***************************************************************************)
\* LIMITS.MAX_SELECTION_LENGTH
MAX_SELECTION_LENGTH == 200

\* Rates are held in hundredths: a rate of 1.10 per euro is 110.
RateUnit == 100

\* rates = null
NullRates == [null |-> TRUE, rate |-> [c \in {} |-> 0]]

\* A faulty conversion: the rate of the target currency is not looked up.
convertNoTargetCheck(amount, from, to, rt) ==
  IF rt.null \/ amount.kind # "num" \/ from = to THEN NoAmount
  ELSE IF from # "EUR" /\ ~(from \in DOMAIN rt.rate /\ rt.rate[from] # 0)
  THEN NoAmount
  ELSE [kind |-> "num",
        num  |-> amount.n * (IF to \in DOMAIN rt.rate THEN rt.rate[to] ELSE RateUnit),
        den  |-> (10 ^ amount.e) * (IF from = "EUR" THEN RateUnit ELSE rt.rate[from])]

\* convertCurrencyLocal(amount, from, to), lines 575-602, with the rate
\* table rt: amount / rates[from] * rates[to] as the fraction num / den
\* (the euro needs no rate: its rate is 1)
convertCurrencyLocal(amount, from, to, rt) ==
  IF rt.null \/ amount.kind # "num" \/ from = to THEN NoAmount
  ELSE IF from # "EUR" /\ ~(from \in DOMAIN rt.rate /\ rt.rate[from] # 0)
  THEN NoAmount
  ELSE IF to # "EUR" /\ ~(to \in DOMAIN rt.rate /\ rt.rate[to] # 0)
  THEN NoAmount
  ELSE [kind |-> "num",
        num  |-> amount.n * (IF to = "EUR" THEN RateUnit ELSE rt.rate[to]),
        den  |-> (10 ^ amount.e) * (IF from = "EUR" THEN RateUnit ELSE rt.rate[from])]

\* An erroneous resolution: the first candidate, whatever is preferred.
ResolveFirst(detection, cfg) ==
  detection.currencies[1]

\* fromCurrency, lines 400-403 and 555-558
ResolveCurrency(detection, cfg) ==
  IF Len(detection.currencies) > 1
     /\ cfg.defaultDollarCurrency \in Range(detection.currencies)
  THEN cfg.defaultDollarCurrency
  ELSE detection.currencies[1]

\* The rate table is absent, or lacks the rate of one of the two currencies.
RateMissing(from, to, rt) ==
  rt.null \/ from \notin DOMAIN rt.rate \/ to \notin DOMAIN rt.rate

\* n lies inside a region that bears the converted marker.
InsideMarked(d, n) ==
  \E a \in Range(Ancestors(d, n)) : REPLACED_CLASS \in d[a].classList

\* n is, or contains, a region that bears the converted marker.
HoldsMarked(d, n) ==
  \E k \in Range(Subtree(d, n)) : REPLACED_CLASS \in d[k].classList

\* The entry of the log for one run of detection on node n.
LogEntry(h, n, found, from, cfg, rt, after) ==
  [node    |-> n,
   inside  |-> InsideMarked(h.doc, n),
   within  |-> Ancestors(h.doc, n),
   skip    |-> shouldSkipNode(h.doc, n),
   pass    |-> h.pass,
   aborted |-> after.aborted > h.aborted,
   holds   |-> HoldsMarked(h.doc, n),
   written |-> h.doc[n].written /\ InsideMarked(h.doc, n),
   found   |-> found,
   noRate  |-> found /\ RateMissing(from, cfg.targetCurrency, rt),
   over    |-> h.count >= cfg.autoReplaceLimit,
   started |-> Len(after.ls) > Len(h.ls),
   changed |-> after.doc # h.doc \/ after.count # h.count]

\* The heap after the handler has changed the children of target, adding
\* the nodes added: a connected observer of document.body records it.
Record(h, target, added) ==
  IF h.observing /\ Contains(h.doc, documentBody, target)
  THEN [h EXCEPT !.recs = Append(@, added)]
  ELSE h

\* An animationend listener: what its closure holds.  text is what the
\* region read in the document, counted what replacementCount was, and
\* target the currency convertedAmount is in, when the replacement was
\* started (history).
Listener(kind, el, fullOriginal, from, amount, text, counted) ==
  [kind |-> kind, el |-> el, fullOriginal |-> fullOriginal,
   fromCurrency |-> from, convertedAmount |-> amount,
   before |-> text, countBefore |-> counted, target |-> ""]

\* replaceCompositeElement, lines 428-528, up to the listener
replaceCompositeElement(h, el, from, amount) ==
  [h EXCEPT !.doc[el].classList = @ \cup {FADING_CLASS},
            !.ls = Append(@, Listener("composite", el,
                                      Trim(textContent(h.doc, el)), from, amount,
                                      textContent(h.doc, el), h.count))]

\* actualMatchStart, lines 658-675 (positions count from 1)
actualMatchStart(text, matchStart) ==
  LET beforeMatch == TrimEnd(SubSeq(text, 1, matchStart - 1))
      k == FirstIndex(symbolKeys, LAMBDA sy : EndsWith(beforeMatch, sy))
  IN  IF matchStart > 1 /\ k > 0
      THEN Len(beforeMatch) - Len(symbolKeys[k]) + 1
      ELSE matchStart

\* fullOriginal, lines 659-675
fullOriginalOf(text, matchStart, original) ==
  LET beforeMatch == TrimEnd(SubSeq(text, 1, matchStart - 1))
      k == FirstIndex(symbolKeys, LAMBDA sy : EndsWith(beforeMatch, sy))
  IN  IF matchStart > 1 /\ k > 0
      THEN symbolKeys[k] \o SubSeq(text, Len(beforeMatch) + 1, matchStart - 1)
                         \o original
      ELSE original

\* replaceInTextNode from line 690 on, up to the listener: the text node
\* gives way to the text before, the fading span and the text after.  The
\* new nodes take the next free numbers, in this order: text before, span,
\* the text of the span, text after.
fadeOut(h, textNode, start, full, from, amount) ==
  LET text   == h.doc[textNode].data
      parent == h.doc[textNode].parentNode
      before == SubSeq(text, 1, start - 1)
      after  == SubSeq(text, start + Len(full), Len(text))
      span   == Len(h.doc) + (IF before # <<>> THEN 2 ELSE 1)
      added  == (IF before # <<>> THEN <<span - 1>> ELSE <<>>) \o <<span>>
                  \o (IF after # <<>> THEN <<span + 2>> ELSE <<>>)
      fresh  == (IF before # <<>> THEN <<TextNode(before, parent)>> ELSE <<>>)
                  \o <<[Element("SPAN", {FADING_CLASS}, parent)
                          EXCEPT !.childNodes = <<span + 1>>]>>
                  \o <<TextNode(full, span)>>
                  \o (IF after # <<>> THEN <<TextNode(after, parent)>> ELSE <<>>)
  IN  Record([h EXCEPT
                !.doc = [(h.doc \o fresh) EXCEPT
                           ![parent].childNodes =
                              ReplaceChild(h.doc, parent, textNode, added),
                           ![textNode].parentNode = 0],
                !.ls = Append(@, Listener("text", span, full, from, amount,
                                          SubSeq(text, start, start + Len(full) - 1),
                                          h.count))],
             parent, added)

\* replaceInTextNode, lines 626-818, up to the listener; it returns early
\* when the match is not found (637), the text node has no parent (643) or
\* safeDOMOperation reports that replaceChild has thrown (722), and
\* "aborted" counts these returns (history)
replaceInTextNode(h, textNode, detection, from, amount) ==
  LET text       == h.doc[textNode].data
      matchStart == IndexOf(text, detection.original)
  IN  IF matchStart = 0 \/ h.doc[textNode].parentNode = 0
         \/ h.doc[h.doc[textNode].parentNode].frozen
      THEN [h EXCEPT !.aborted = @ + 1]
      ELSE fadeOut(h, textNode, actualMatchStart(text, matchStart),
                   fullOriginalOf(text, matchStart, detection.original),
                   from, amount)

\* The heap after, with the run of detection on n entered in the log.
Logged(h, n, found, from, cfg, rt, after) ==
  [after EXCEPT !.log = Append(@, LogEntry(h, n, found, from, cfg, rt, after))]

\* processCompositeElement from line 417 on and processTextNode from line
\* 564 on, with the amount convertCurrencyLocal returned
processConverted(h, n, kind, detection, from, amount) ==
  IF amount = NoAmount THEN h
  ELSE [(IF kind = "composite"
         THEN replaceCompositeElement(h, n, from, amount)
         ELSE replaceInTextNode(h, n, detection, from, amount))
          EXCEPT !.count = @ + 1]

\* The heap after, with the currency of convertedAmount entered in the
\* listener the run has added (history).
ConvertedTo(h, to, after) ==
  IF Len(after.ls) > Len(h.ls)
  THEN [after EXCEPT !.ls[Len(after.ls)].target = to]
  ELSE after

\* processCompositeElement from line 400 on and processTextNode from line
\* 555 on, with fromCurrency resolved
processResolved(h, n, kind, text, detection, from, cfg, rt) ==
  IF from = cfg.targetCurrency THEN h
  ELSE IF kind = "composite" /\ Len(text) > 15
          /\ 2 * Len(detection.original) < Len(text)
  THEN h
  ELSE ConvertedTo(h, cfg.targetCurrency,
         processConverted(h, n, kind, detection, from,
           convertCurrencyLocal(detection.amount, from, cfg.targetCurrency, rt)))

\* processCompositeElement from line 397 on and processTextNode from line
\* 552 on, with what detectCurrency returned
processDetection(h, n, kind, text, detection, cfg, rt) ==
  IF detection = NoDetection THEN Logged(h, n, FALSE, "", cfg, rt, h)
  ELSE Logged(h, n, TRUE, ResolveCurrency(detection, cfg), cfg, rt,
              processResolved(h, n, kind, text, detection,
                              ResolveCurrency(detection, cfg), cfg, rt))

\* processCompositeElement(element), lines 391-423
processCompositeElement(h, el, text, cfg, rt) ==
  IF text = <<>> \/ Len(text) > 50 THEN h
  ELSE processDetection(h, el, "composite", text,
         CurrencyDetector[cfg.numberFormat][text], cfg, rt)

\* processTextNode(textNode), lines 547-570
processTextNode(h, textNode, cfg, rt) ==
  IF h.doc[textNode].data = <<>>
     \/ Len(h.doc[textNode].data) > MAX_SELECTION_LENGTH * 2
  THEN h
  ELSE processDetection(h, textNode, "text", h.doc[textNode].data,
         CurrencyDetector[cfg.numberFormat][h.doc[textNode].data],
         cfg, rt)

\* The loop of scanCompositeElements, lines 324-379, from candidate k on;
\* processed is processedInBatch.
RECURSIVE scanCandidates(_, _, _, _, _, _, _)
\* A faulty loop: it does not look at what it has chosen before.
scanCandidatesNested(h, root, cands, k, processed, cfg, rt) ==
  IF k > Len(cands) \/ h.count >= cfg.autoReplaceLimit THEN h
  ELSE IF \/ REPLACED_CLASS \in h.doc[cands[k]].classList
          \/ querySelectorAll(h.doc, cands[k], REPLACED_CLASS) # <<>>
  THEN scanCandidates(h, root, cands, k + 1, processed, cfg, rt)
  ELSE scanCandidates(
         processCompositeElement(h, cands[k],
                                 Trim(textContent(h.doc, cands[k])), cfg, rt),
         root, cands, k + 1, processed \cup {cands[k]}, cfg, rt)

scanCandidates(h, root, cands, k, processed, cfg, rt) ==
  IF k > Len(cands) \/ h.count >= cfg.autoReplaceLimit THEN h
  ELSE IF \/ REPLACED_CLASS \in h.doc[cands[k]].classList
          \/ querySelectorAll(h.doc, cands[k], REPLACED_CLASS) # <<>>
          \/ \E p \in processed : p # cands[k] /\ Contains(h.doc, p, cands[k])
          \/ \E a \in Range(Ancestors(h.doc, cands[k])) :
               a \in processed /\ Contains(h.doc, root, a) /\ a # root
  THEN scanCandidates(h, root, cands, k + 1, processed, cfg, rt)
  ELSE scanCandidates(
         processCompositeElement(h, cands[k],
                                 Trim(textContent(h.doc, cands[k])), cfg, rt),
         root, cands, k + 1, processed \cup {cands[k]}, cfg, rt)

\* scanCompositeElements(root), lines 307-386
scanCompositeElements(h, root, cfg, rt) ==
  scanCandidates(h, root, querySelectorAll(h.doc, root, PRICE_CLASS), 1, {},
                 cfg, rt)

\* The text nodes the TreeWalker of scanNode accepts, lines 277-294
acceptedTextNodes(d, root) ==
  SelectSeq(Tail(Subtree(d, root)),
            LAMBDA n : /\ d[n].nodeType = "TEXT"
                       /\ Trim(d[n].data) # <<>>
                       /\ ~shouldSkipNode(d, n))

\* The loop of scanNode, lines 297-300, from text node k on
RECURSIVE scanTextNodes(_, _, _, _, _)
\* A faulty loop: it ends when a replacement has been given up.
scanTextNodesAbort(h, textNodes, k, cfg, rt) ==
  IF k > Len(textNodes) \/ h.count >= cfg.autoReplaceLimit \/ h.aborted > 0
  THEN h
  ELSE scanTextNodes(processTextNode(h, textNodes[k], cfg, rt),
                     textNodes, k + 1, cfg, rt)

scanTextNodes(h, textNodes, k, cfg, rt) ==
  IF k > Len(textNodes) \/ h.count >= cfg.autoReplaceLimit THEN h
  ELSE scanTextNodes(processTextNode(h, textNodes[k], cfg, rt),
                     textNodes, k + 1, cfg, rt)

\* scanNode from line 277 on, the composite elements having been scanned
walkTextNodes(h, root, cfg, rt) ==
  scanTextNodes(h, acceptedTextNodes(h.doc, root), 1, cfg, rt)

\* scanNode(root), lines 270-301
scanNode(h, root, cfg, rt) ==
  IF h.count >= cfg.autoReplaceLimit THEN h
  ELSE walkTextNodes(scanCompositeElements([h EXCEPT !.pass = @ + 1],
                                           root, cfg, rt),
                     root, cfg, rt)

\* scanPage(), lines 239-263
scanPage(h, enabled, cfg, rt) ==
  IF ~enabled \/ rt.null \/ isScanning THEN h
  ELSE scanNode(h, documentBody, cfg, rt)

\* restoreElement(element), lines 891-929; the entry of "restored" holds
\* the text the region reads now and what it read before its conversion
restoreElement(h, el) ==
  IF h.doc[el].dataset.original = <<>> \/ h.doc[el].parentNode = 0 THEN h
  ELSE IF h.doc[h.doc[el].parentNode].frozen THEN h
  ELSE Record(
         [h EXCEPT
            !.doc = [Append(h.doc, TextNode(h.doc[el].dataset.original,
                                            h.doc[el].parentNode))
                       EXCEPT ![h.doc[el].parentNode].childNodes =
                                 ReplaceChild(h.doc, h.doc[el].parentNode, el,
                                              <<Len(h.doc) + 1>>),
                              ![el].parentNode = 0],
            !.count = IF @ > 0 THEN @ - 1 ELSE 0,
            !.restored = Append(@, [node        |-> el,
                                    by          |-> Len(h.doc) + 1,
                                    text        |-> h.doc[el].dataset.original,
                                    before      |-> h.doc[el].before,
                                    countBefore |-> h.doc[el].countBefore])],
         h.doc[el].parentNode, <<Len(h.doc) + 1>>)

\* elements.forEach(restoreElement), line 938, from element k on
RECURSIVE restoreEach(_, _, _)
restoreEach(h, elements, k) ==
  IF k > Len(elements) THEN h
  ELSE restoreEach(restoreElement(h, elements[k]), elements, k + 1)

\* A faulty restoreAll: only the first of the elements is restored.
restoreFirstOnly(h) ==
  LET elements == querySelectorAll(h.doc, documentBody, REPLACED_CLASS)
  IN  [restoreEach(h, IF elements = <<>> THEN <<>> ELSE <<elements[1]>>, 1)
         EXCEPT !.count = 0]

\* A faulty restoreAll: the count is left as restoreElement left it.
restoreAllNoReset(h) ==
  restoreEach(h, querySelectorAll(h.doc, documentBody, REPLACED_CLASS), 1)

\* restoreAll(), lines 934-941
restoreAll(h) ==
  [restoreEach(h, querySelectorAll(h.doc, documentBody, REPLACED_CLASS), 1)
     EXCEPT !.count = 0]

DigitChars == <<"0", "1", "2", "3", "4", "5", "6", "7", "8", "9">>

\* ZERO_DECIMAL_CURRENCIES
ZERO_DECIMAL_CURRENCIES == {"HUF", "JPY", "KRW", "IDR", "ISK"}

\* CURRENCY_CODE_TO_SYMBOL: the symbol a converted amount is shown with,
\* for the target currencies of the configurations
CURRENCY_CODE_TO_SYMBOL ==
  [EUR |-> <<"U20AC">>, GBP |-> <<"U00A3">>, USD |-> <<"$">>]

\* The decimal digits of n
RECURSIVE ToDigits(_)
ToDigits(n) ==
  IF n < 10 THEN <<DigitChars[n + 1]>>
  ELSE ToDigits(n \div 10) \o <<DigitChars[(n % 10) + 1]>>

\* The digits ds with a comma before every group of three.
RECURSIVE Grouped(_)
Grouped(ds) ==
  IF Len(ds) <= 3 THEN ds
  ELSE Grouped(SubSeq(ds, 1, Len(ds) - 3)) \o <<",">>
         \o SubSeq(ds, Len(ds) - 2, Len(ds))

\* The digits of n, with zeros in front up to width w.
Padded(n, w) ==
  [k \in 1..(w - Len(ToDigits(n))) |-> "0"] \o ToDigits(n)

\* amount.toLocaleString(undefined, {minimumFractionDigits: digits,
\* maximumFractionDigits: digits}), lines 615-618, in a locale that writes
\* numbers as en-US does; the amount is the fraction num / den
toLocaleString(amount, digits) ==
  LET scaled == (2 * amount.num * (10 ^ digits) + amount.den) \div (2 * amount.den)
  IN  Grouped(ToDigits(scaled \div (10 ^ digits)))
        \o (IF digits = 0 THEN <<>>
            ELSE <<".">> \o Padded(scaled % (10 ^ digits), digits))

\* formatAmount(amount, currencyCode), lines 607-619
formatAmount(amount, currencyCode) ==
  toLocaleString(amount, IF currencyCode \in ZERO_DECIMAL_CURRENCIES THEN 0 ELSE 2)

\* CURRENCY_CODE_TO_SYMBOL[code] || code, lines 492 and 772
symbolOf(code) ==
  IF code \in DOMAIN CURRENCY_CODE_TO_SYMBOL THEN CURRENCY_CODE_TO_SYMBOL[code]
  ELSE CodeChars[code]

\* newContent, lines 492-493 and 772-773
newContent(amount, cfg) ==
  formatAmount(amount, cfg.targetCurrency) \o <<" ">> \o symbolOf(cfg.targetCurrency)

\* The element a replacement leaves in the place of its region: marked,
\* with its record; its one child, shown, reads the converted amount.
Marked(node, l, shown) ==
  [node EXCEPT
     !.classList   = (@ \ {FADING_CLASS}) \cup {REPLACED_CLASS},
     !.dataset     = [original |-> l.fullOriginal, fromCurrency |-> l.fromCurrency],
     !.childNodes  = <<shown>>,
     !.before      = l.before,
     !.countBefore = l.countBefore]

\* The animationend listener of replaceInTextNode, lines 733-815: the new
\* nodes are the marked span and its text.
textAnimationEnd(h, l, cfg) ==
  IF h.doc[l.el].parentNode = 0 THEN h
  ELSE IF ~Contains(h.doc, documentBody, h.doc[l.el].parentNode) THEN h
  ELSE IF h.doc[h.doc[l.el].parentNode].frozen THEN h
  ELSE Record(
         [h EXCEPT
            !.doc = [(h.doc \o
                       << Marked(Element("SPAN", {}, h.doc[l.el].parentNode),
                                 l, Len(h.doc) + 2),
                          [TextNode(newContent(l.convertedAmount, cfg),
                                    Len(h.doc) + 1) EXCEPT !.written = TRUE] >>)
                       EXCEPT ![h.doc[l.el].parentNode].childNodes =
                                 ReplaceChild(h.doc, h.doc[l.el].parentNode, l.el,
                                              <<Len(h.doc) + 1>>),
                              ![l.el].parentNode = 0]],
         h.doc[l.el].parentNode, <<Len(h.doc) + 1>>)

\* The animationend listener of replaceCompositeElement, lines 454-525:
\* innerHTML = newContent takes the children of the element out and puts
\* a new text node in.
compositeAnimationEnd(h, l, cfg) ==
  IF h.doc[l.el].parentNode = 0 THEN h
  ELSE IF ~Contains(h.doc, documentBody, l.el) THEN h
  ELSE IF h.doc[l.el].frozen
  THEN [h EXCEPT !.doc[l.el] = Marked(@, l, 0),
                 !.doc[l.el].childNodes = h.doc[l.el].childNodes]
  ELSE Record(
         [h EXCEPT
            !.doc = Tuple([n \in DOMAIN h.doc |->
                       IF n = l.el THEN Marked(h.doc[n], l, Len(h.doc) + 1)
                       ELSE IF h.doc[n].parentNode = l.el
                       THEN [h.doc[n] EXCEPT !.parentNode = 0]
                       ELSE h.doc[n]])
                    \o <<[TextNode(newContent(l.convertedAmount, cfg), l.el)
                           EXCEPT !.written = TRUE]>>],
         l.el, <<Len(h.doc) + 1>>)

\* One listener runs: the heap after, with the call entered in "calls".
runListener(h, l, after) ==
  [after EXCEPT !.calls = Append(@,
     [el          |-> l.el,
      removed     |-> ~Contains(h.doc, documentBody, l.el),
      mutated     |-> after.doc # h.doc,
      target      |-> l.target,
      countBefore |-> l.countBefore])]

\* The listeners run[k], run[k+1], ... run in turn.
RECURSIVE runListeners(_, _, _, _)
runListeners(h, run, k, cfg) ==
  IF k > Len(run) THEN h
  ELSE runListeners(
         runListener(h, run[k],
                     IF run[k].kind = "composite"
                     THEN compositeAnimationEnd(h, run[k], cfg)
                     ELSE textAnimationEnd(h, run[k], cfg)),
         run, k + 1, cfg)

\* The nodes an animationend event of target visits: target, then its
\* ancestors (the event bubbles).
EventPath(d, target) == <<target>> \o Ancestors(d, target)

\* The listeners an animationend event of target runs, in order.
eventListeners(d, ls, target) ==
  Flatten([k \in DOMAIN EventPath(d, target) |->
             SelectSeq(ls, LAMBDA l : l.el = EventPath(d, target)[k])])

(***************************************************************************)
(* The scanner on a page: the content script calls init and               *)
(* updateSettings, the page changes its document, the observer, the        *)
(* debounce timer and the animationend events call back.                   *)
(***************************************************************************)
MaxPageOps == 1
MaxUpdates == 1

\* window.location.hostname
hostname == "shop.example"

\* The pages the scanner is loaded on.  Pages[1]: a price in a text, and a
\* price element.  Pages[2]: a price element, and a price in a script.
Pages ==
  << << [Element("BODY", {}, 0) EXCEPT !.childNodes = <<2, 4>>],
        [Element("DIV", {}, 1) EXCEPT !.childNodes = <<3>>],
        TextNode(<<"$", "5">>, 2),
        [Element("SPAN", {PRICE_CLASS}, 1) EXCEPT !.childNodes = <<5>>],
        TextNode(<<" ", "U00A5", "7">>, 4) >>,
     << [Element("BODY", {}, 0) EXCEPT !.childNodes = <<2, 4>>],
        [Element("SPAN", {PRICE_CLASS}, 1) EXCEPT !.childNodes = <<3>>],
        TextNode(<<" ", "U00A5", "7">>, 2),
        [Element("SCRIPT", {}, 1) EXCEPT !.childNodes = <<5>>],
        TextNode(<<"$", "5">>, 4) >> >>

\* What the page inserts: a text, or an element that holds a text.  The
\* nodes of a template are numbered from 1, its root; parentNode and
\* childNodes hold these numbers.
Templates ==
  << << TextNode(<<"$", "5">>, 0) >>,
     << [Element("DIV", {}, 0) EXCEPT !.childNodes = <<2>>],
        TextNode(<<"$", "5">>, 1) >> >>

\* The settings the content script passes.
Configs ==
  LET base == [extensionEnabled |-> TRUE, conversionMode |-> "auto",
               disabledDomains |-> {}, targetCurrency |-> "EUR",
               defaultDollarCurrency |-> "USD", numberFormat |-> "auto",
               autoReplaceLimit |-> 2]
  IN  { base,
        [base EXCEPT !.autoReplaceLimit = 1],
        [base EXCEPT !.targetCurrency = "GBP"],
        [base EXCEPT !.targetCurrency = "USD", !.defaultDollarCurrency = "AUD",
                     !.autoReplaceLimit = 3],
        [base EXCEPT !.extensionEnabled = FALSE],
        [base EXCEPT !.conversionMode = "interactive"],
        [base EXCEPT !.disabledDomains = {hostname}] }

\* The rate tables the content script passes: rates per euro, in
\* hundredths; none has a rate of GBP, one has none of JPY and AUD.
RateTables ==
  { NullRates,
    [null |-> FALSE, rate |-> [c \in {"EUR", "USD", "JPY", "AUD"} |->
        IF c = "EUR" THEN 100 ELSE IF c = "USD" THEN 110
        ELSE IF c = "AUD" THEN 165 ELSE 16000]],
    [null |-> FALSE, rate |-> [c \in {"EUR", "USD"} |->
        IF c = "EUR" THEN 100 ELSE 110]] }

\* The prices of these pages, as detection reads them.
PagePrices ==
  { [amount |-> [kind |-> "num", n |-> 5, e |-> 0], from |-> "USD"],
    [amount |-> [kind |-> "num", n |-> 7, e |-> 0], from |-> "JPY"] }

\* The amounts the scanner converts these prices to.
Converted(prices) ==
  { convertCurrencyLocal(p.amount, p.from, c.targetCurrency, rt) :
      p \in prices, c \in Configs, rt \in RateTables } \ {NoAmount}

\* The prices detection reads in what the scanner has written for these
\* prices: the amount in hundredths, in a currency of the settings.
Reread(prices) ==
  { [amount |-> [kind |-> "num",
                 n |-> (200 * a.num + a.den) \div (2 * a.den), e |-> 2],
     from   |-> currency] :
      a \in Converted(prices),
      currency \in {c.targetCurrency : c \in Configs}
                     \cup {c.defaultDollarCurrency : c \in Configs} }

\* What the scanner writes for the prices of these pages, and for what it
\* reads in what it has written.
ShownTexts ==
  { newContent(price, config) :
      price \in Converted(PagePrices \cup Reread(PagePrices)
                            \cup Reread(Reread(PagePrices))),
      config \in Configs }

\* The texts a scan reads on these pages: a space or none, the price of the
\* price element or none, and the prices the page has put in; or a text the
\* scanner has written.
ScanTexts ==
  { lead \o mid \o Flatten([k \in 1..j |-> <<"$", "5">>]) :
      lead \in {<<>>, <<" ">>}, mid \in {<<>>, <<"U00A5", "7">>},
      j \in 0..MaxPageOps }
    \cup ShownTexts

\* settings = null
NoSettings == [none |-> TRUE]

\* A watcher: the closure of one call of setupMutationObserver, lines 954-955
NewWatcher == [pendingNodes |-> <<>>, debounceTimer |-> FALSE, notified |-> FALSE]

\* What a handler leaves in "happened"; mutations are the records it has
\* made or, for the callback of the observer, the records it was given.
Happened(op, h, was, count0) ==
  [op |-> op, log |-> h.log, restored |-> h.restored, calls |-> h.calls,
   skippedCount |-> h.skippedCount, mutations |-> h.recs,
   wasEnabled |-> was, countAtEntry |-> count0]

\* The heap a handler starts on; obs tells whether an observer is connected,
\* and pass counts the calls of scanNode (history).
Heap(obs) ==
  [doc |-> document, count |-> replacementCount, ls |-> listeners,
   recs |-> mutationRecords, observing |-> obs,
   log |-> <<>>, restored |-> <<>>, calls |-> <<>>, skippedCount |-> 0,
   pass |-> 0, aborted |-> 0]

\* The state of the scanner when the content script has loaded it on page.
InitScanner(page) ==
  /\ document = page
  /\ isEnabled = FALSE
  /\ settings = NoSettings
  /\ rates = NullRates
  /\ replacementCount = 0
  /\ observer = FALSE
  /\ isScanning = FALSE
  /\ watchers = <<>>
  /\ mutationRecords = <<>>
  /\ listeners = <<>>
  /\ initialised = FALSE
  /\ pageOps = 0
  /\ updates = 0
  /\ happened = [op |-> "load", log |-> <<>>, restored |-> <<>>, calls |-> <<>>,
                 skippedCount |-> 0, mutations |-> <<>>,
                 wasEnabled |-> FALSE, countAtEntry |-> 0]

Init ==
  /\ currencySymbols = CURRENCY_SYMBOLS
  /\ selText = <<>>
  /\ formatSetting = "auto"
  /\ detections = <<>>
  /\ lastDetection = NoDetection
  /\ CurrencyDetector =
       [format \in {config.numberFormat : config \in Configs} |->
          [text \in ScanTexts |-> detectCurrency(text, format, CURRENCY_SYMBOLS)]]
  /\ \E page \in Range(Pages) : InitScanner(page)
  /\ InitWorker(NoStoredSettings, NullRates)
  /\ InitParse(<<>>, "auto")
  /\ InitLayout(NoGeometry)
  /\ InitResolve(<<"USD">>, "")

\* A faulty shouldBeEnabled: the disabled domains are not looked at.
shouldBeEnabledAnywhere(config) ==
  /\ config.extensionEnabled
  /\ config.conversionMode = "auto"

\* shouldBeEnabled(config), lines 214-224
shouldBeEnabled(config) ==
  /\ config.extensionEnabled
  /\ config.conversionMode = "auto"
  /\ hostname \notin config.disabledDomains

\* The heap goes back to the variables.
Commit(h) ==
  /\ document' = h.doc
  /\ replacementCount' = h.count
  /\ listeners' = h.ls

\* A handler ends: the heap goes back to the variables, and the records of
\* an observer that is no longer connected are dropped (disconnect()).
Finish(op, h, connected) ==
  /\ Commit(h)
  /\ mutationRecords' = IF connected THEN h.recs ELSE <<>>
  /\ observer' = connected
  /\ happened' = Happened(op, h, isEnabled, replacementCount)

\* setupMutationObserver(), lines 946-957: a watcher, unless an observer is
\* there
setupMutationObserver ==
  watchers' = IF observer THEN watchers ELSE Append(watchers, NewWatcher)

\* init(config, ratesData), lines 149-175
init(config, ratesData) ==
  /\ mutationRecords = <<>>
  /\ settings' = config
  /\ rates' = ratesData
  /\ isEnabled' = shouldBeEnabled(config)
  /\ IF ~shouldBeEnabled(config)
     THEN /\ Finish("init", Heap(observer), FALSE)
          /\ UNCHANGED watchers
     ELSE /\ Finish("init",
                    scanPage([Heap(observer) EXCEPT !.count = 0], TRUE,
                             config, ratesData),
                    TRUE)
          /\ setupMutationObserver
  /\ UNCHANGED <<otherVars, detectVars, CurrencyDetector, isScanning, pageOps>>

\* The content script calls PageScanner.init when it has loaded.
CallInit ==
  /\ ~initialised
  /\ initialised' = TRUE
  /\ UNCHANGED updates
  /\ \E config \in Configs, ratesData \in RateTables : init(config, ratesData)

\* A caller calls PageScanner.init again.
CallInitAgain ==
  /\ initialised
  /\ updates < MaxUpdates
  /\ updates' = updates + 1
  /\ UNCHANGED initialised
  /\ \E config \in Configs, ratesData \in RateTables : init(config, ratesData)

\* A faulty test: a changed limit counts as a changed parameter too.
paramsChangedLimit(oldSettings, newSettings) ==
  \/ oldSettings = NoSettings
  \/ newSettings.targetCurrency # oldSettings.targetCurrency
  \/ newSettings.defaultDollarCurrency # oldSettings.defaultDollarCurrency
  \/ newSettings.numberFormat # oldSettings.numberFormat
  \/ newSettings.autoReplaceLimit # oldSettings.autoReplaceLimit

\* paramsChanged, lines 186-190
paramsChanged(oldSettings, newSettings) ==
  \/ oldSettings = NoSettings
  \/ newSettings.targetCurrency # oldSettings.targetCurrency
  \/ newSettings.defaultDollarCurrency # oldSettings.defaultDollarCurrency
  \/ newSettings.numberFormat # oldSettings.numberFormat

\* updateSettings(newSettings, ratesData), lines 180-212
updateSettings(newSettings, ratesData) ==
  /\ mutationRecords = <<>>
  /\ settings' = newSettings
  /\ rates' = ratesData
  /\ isEnabled' = shouldBeEnabled(newSettings)
  /\ IF ~shouldBeEnabled(newSettings) /\ isEnabled
     THEN /\ Finish("updateSettings", restoreAll(Heap(observer)), FALSE)
          /\ UNCHANGED watchers
     ELSE IF shouldBeEnabled(newSettings) /\ ~isEnabled
     THEN /\ Finish("updateSettings",
                    scanPage([Heap(observer) EXCEPT !.count = 0], TRUE,
                             newSettings, ratesData),
                    TRUE)
          /\ setupMutationObserver
     ELSE IF shouldBeEnabled(newSettings) /\ isEnabled
             /\ paramsChanged(settings, newSettings)
     THEN /\ Finish("updateSettings",
                    scanPage([restoreAll(Heap(observer)) EXCEPT !.count = 0],
                             TRUE, newSettings, ratesData),
                    observer)
          /\ UNCHANGED watchers
     ELSE /\ Finish("updateSettings", Heap(observer), observer)
          /\ UNCHANGED watchers
  /\ UNCHANGED <<otherVars, detectVars, CurrencyDetector, isScanning, initialised, pageOps>>

\* The content script passes changed settings, or fresh rates, on.
CallUpdateSettings ==
  /\ updates < MaxUpdates
  /\ updates' = updates + 1
  /\ \E newSettings \in Configs, ratesData \in RateTables :
       updateSettings(newSettings, ratesData)

\* A faulty filter: every added node is kept.
PendableAll(d, n) == d[n].nodeType \in {"ELEMENT", "TEXT"}

\* Whether the observer's callback keeps an added node, lines 997-1007
Pendable(d, n) ==
  IF d[n].nodeType = "ELEMENT"
  THEN REPLACED_CLASS \notin d[n].classList /\ FADING_CLASS \notin d[n].classList
  ELSE Trim(d[n].data) # <<>>

\* The callback of the MutationObserver, lines 958-1035, with the records
\* made since the last delivery: it runs before any other handler does.
\* It starts the timer of its own closure anew, unless it returns at once;
\* a timer it does not start anew has then seen a notification arrive
\* while it was running ("notified", history).
ObserverCallback ==
  /\ observer
  /\ mutationRecords # <<>>
  /\ mutationRecords' = <<>>
  /\ watchers' =
       [w \in DOMAIN watchers |->
          IF /\ w = Len(watchers)
             /\ isEnabled /\ replacementCount < settings.autoReplaceLimit
          THEN [pendingNodes  |-> watchers[w].pendingNodes
                                    \o SelectSeq(Flatten(mutationRecords),
                                                 LAMBDA n : Pendable(document, n)),
                debounceTimer |-> TRUE,
                notified      |-> FALSE]
          ELSE [watchers[w] EXCEPT !.notified = watchers[w].debounceTimer]]
  /\ happened' = Happened("observer", Heap(observer), isEnabled, replacementCount)
  /\ UNCHANGED <<otherVars, detectVars, CurrencyDetector, document, isEnabled, settings, rates,
                 replacementCount, observer, isScanning, listeners,
                 initialised, pageOps, updates>>

\* The loop of the debounce timer, lines 1055-1079, from node k on
RECURSIVE processPending(_, _, _, _, _)
\* A faulty loop: it does not look whether the node is in the document.
processPendingAnywhere(h, nodesToProcess, k, cfg, rt) ==
  IF k > Len(nodesToProcess) \/ h.count >= cfg.autoReplaceLimit THEN h
  ELSE processPending(
         IF h.doc[nodesToProcess[k]].nodeType = "ELEMENT"
         THEN scanNode(h, nodesToProcess[k], cfg, rt)
         ELSE processTextNode(h, nodesToProcess[k], cfg, rt),
         nodesToProcess, k + 1, cfg, rt)

processPending(h, nodesToProcess, k, cfg, rt) ==
  IF k > Len(nodesToProcess) \/ h.count >= cfg.autoReplaceLimit THEN h
  ELSE processPending(
         IF ~Contains(h.doc, documentBody, nodesToProcess[k])
         THEN [h EXCEPT !.skippedCount = @ + 1]
         ELSE IF h.doc[nodesToProcess[k]].nodeType = "ELEMENT"
         THEN scanNode(h, nodesToProcess[k], cfg, rt)
         ELSE processTextNode(h, nodesToProcess[k], cfg, rt),
         nodesToProcess, k + 1, cfg, rt)

\* The debounce timer of watcher w fires, lines 1035-1087
debounceTimer(w, h) ==
  /\ Finish("timer", h, observer)
  /\ watchers' = [watchers EXCEPT ![w] = NewWatcher]
  /\ UNCHANGED <<otherVars, detectVars, CurrencyDetector, isEnabled, settings, rates, isScanning,
                 initialised, pageOps, updates>>

\* A debounce timer that empties the queue and scans nothing.
DebounceTimerDrop ==
  \E w \in DOMAIN watchers :
    /\ watchers[w].debounceTimer
    /\ mutationRecords = <<>>
    /\ debounceTimer(w, Heap(observer))

DebounceTimer ==
  \E w \in DOMAIN watchers :
    /\ watchers[w].debounceTimer
    /\ mutationRecords = <<>>
    /\ debounceTimer(w, IF isScanning \/ watchers[w].pendingNodes = <<>>
                        THEN Heap(observer)
                        ELSE processPending(Heap(observer),
                                            watchers[w].pendingNodes, 1,
                                            settings, rates))

\* An animationend event of target: its listeners run, once.
animationend(h) ==
  /\ Finish("animationend", h, observer)
  /\ UNCHANGED <<otherVars, detectVars, CurrencyDetector, isEnabled, settings, rates, isScanning, watchers,
                 initialised, pageOps, updates>>

AnimationEnd ==
  \E target \in {listeners[k].el : k \in DOMAIN listeners} :
    /\ mutationRecords = <<>>
    /\ animationend(
         runListeners(
           [Heap(observer) EXCEPT !.ls =
              SelectSeq(listeners,
                        LAMBDA l : l.el \notin Range(EventPath(document, target)))],
           eventListeners(document, listeners, target), 1, settings))

\* The heap after the page has put the template t in, as the last child of
\* parent.
insert(h, parent, t) ==
  Record([h EXCEPT !.doc =
            [h.doc \o [k \in DOMAIN t |->
                         [t[k] EXCEPT
                            !.parentNode = IF @ = 0 THEN parent ELSE @ + Len(h.doc),
                            !.childNodes = [j \in DOMAIN @ |-> @[j] + Len(h.doc)]]]
               EXCEPT ![parent].childNodes = Append(@, Len(h.doc) + 1)]],
         parent, <<Len(h.doc) + 1>>)

\* The heap after the page has taken node n out.
remove(h, n) ==
  Record([h EXCEPT !.doc[h.doc[n].parentNode].childNodes = SelectSeq(@, LAMBDA c : c # n),
                   !.doc[n].parentNode = 0],
         h.doc[n].parentNode, <<>>)

\* The page changes its document.
pageChange(h) ==
  /\ pageOps < MaxPageOps
  /\ mutationRecords = <<>>
  /\ pageOps' = pageOps + 1
  /\ Finish("page", h, observer)
  /\ UNCHANGED <<otherVars, detectVars, CurrencyDetector, isEnabled, settings, rates, isScanning, watchers,
                 initialised, updates>>

PageInsert ==
  \E parent \in {n \in DOMAIN document :
                   /\ document[n].nodeType = "ELEMENT"
                   /\ ~document[n].frozen
                   /\ Contains(document, documentBody, n)},
     t \in Range(Templates) :
    pageChange(insert(Heap(observer), parent, t))

PageRemove ==
  \E n \in {k \in DOMAIN document :
              /\ k # documentBody /\ Contains(document, documentBody, k)
              /\ ~document[document[k].parentNode].frozen} :
    pageChange(remove(Heap(observer), n))

Next ==
  \/ CallInit
  \/ CallUpdateSettings
  \/ ObserverCallback
  \/ DebounceTimer
  \/ AnimationEnd
  \/ PageInsert
  \/ PageRemove

Spec == Init /\ [][Next]_vars

\* The scanner with callers that call init more than once.
NextLifecycle == Next \/ CallInitAgain

SpecLifecycle == Init /\ [][NextLifecycle]_vars


\* The settings change once more while a debounce timer is running that a
\* later notification has not started anew.
CallUpdateInWindow ==
  /\ updates = MaxUpdates
  /\ \E w \in DOMAIN watchers : watchers[w].debounceTimer /\ watchers[w].notified
  /\ updates' = updates + 1
  /\ \E newSettings \in Configs, ratesData \in RateTables :
       updateSettings(newSettings, ratesData)

\* The scanner with settings that change during the quiet window.
NextDebounce == Next \/ CallUpdateInWindow

\* The scanner loaded on the page with a price in an element and a price in
\* a script.
InitDebounce ==
  /\ currencySymbols = CURRENCY_SYMBOLS
  /\ selText = <<>>
  /\ formatSetting = "auto"
  /\ detections = <<>>
  /\ lastDetection = NoDetection
  /\ CurrencyDetector =
       [format \in {config.numberFormat : config \in Configs} |->
          [text \in ScanTexts |-> detectCurrency(text, format, CURRENCY_SYMBOLS)]]
  /\ InitScanner(Pages[2])
  /\ InitWorker(NoStoredSettings, NullRates)
  /\ InitParse(<<>>, "auto")
  /\ InitLayout(NoGeometry)
  /\ InitResolve(<<"USD">>, "")

SpecDebounce == InitDebounce /\ [][NextDebounce]_vars

\* A page with a price container inside a price container.
NestedPage ==
  << [Element("BODY", {}, 0) EXCEPT !.childNodes = <<2>>],
     [Element("DIV", {PRICE_CLASS}, 1) EXCEPT !.childNodes = <<3>>],
     [Element("SPAN", {PRICE_CLASS}, 2) EXCEPT !.childNodes = <<4>>],
     TextNode(<<" ", "U00A5", "7">>, 3) >>

InitNested ==
  /\ currencySymbols = CURRENCY_SYMBOLS
  /\ selText = <<>>
  /\ formatSetting = "auto"
  /\ detections = <<>>
  /\ lastDetection = NoDetection
  /\ CurrencyDetector =
       [format \in {config.numberFormat : config \in Configs} |->
          [text \in ScanTexts |-> detectCurrency(text, format, CURRENCY_SYMBOLS)]]
  /\ InitScanner(NestedPage)
  /\ InitWorker(NoStoredSettings, NullRates)
  /\ InitParse(<<>>, "auto")
  /\ InitLayout(NoGeometry)
  /\ InitResolve(<<"USD">>, "")

\* The scanner on the page with nested price containers.
SpecNested == InitNested /\ [][Next]_vars

\* A page with an element whose children cannot be changed: replaceChild
\* on it throws.
FrozenPage ==
  << [Element("BODY", {}, 0) EXCEPT !.childNodes = <<2, 4>>],
     [Element("DIV", {}, 1) EXCEPT !.childNodes = <<3>>, !.frozen = TRUE],
     TextNode(<<"$", "5">>, 2),
     [Element("DIV", {}, 1) EXCEPT !.childNodes = <<5>>],
     TextNode(<<"$", "5">>, 4) >>

InitFrozen ==
  /\ currencySymbols = CURRENCY_SYMBOLS
  /\ selText = <<>>
  /\ formatSetting = "auto"
  /\ detections = <<>>
  /\ lastDetection = NoDetection
  /\ CurrencyDetector =
       [format \in {config.numberFormat : config \in Configs} |->
          [text \in ScanTexts |-> detectCurrency(text, format, CURRENCY_SYMBOLS)]]
  /\ InitScanner(FrozenPage)
  /\ InitWorker(NoStoredSettings, NullRates)
  /\ InitParse(<<>>, "auto")
  /\ InitLayout(NoGeometry)
  /\ InitResolve(<<"USD">>, "")

\* The scanner on the page with an element that cannot be written to.
SpecFrozen == InitFrozen /\ [][Next]_vars

\* The scanner on a page that nothing else changes, after one call of
\* init.  The browser delivers the records of the observer, lets a timer
\* that was started fire, and ends every animation.
NextQuiesce ==
  \/ CallInit
  \/ ObserverCallback
  \/ DebounceTimer
  \/ AnimationEnd

\* A page with two prices in one text.
TwoPricePage ==
  << [Element("BODY", {}, 0) EXCEPT !.childNodes = <<2>>],
     [Element("DIV", {}, 1) EXCEPT !.childNodes = <<3>>],
     TextNode(<<"U00A5", "7", "$", "5">>, 2) >>

InitQuiesce ==
  /\ currencySymbols = CURRENCY_SYMBOLS
  /\ selText = <<>>
  /\ formatSetting = "auto"
  /\ detections = <<>>
  /\ lastDetection = NoDetection
  /\ CurrencyDetector =
       [format \in {config.numberFormat : config \in Configs} |->
          [text \in ScanTexts |-> detectCurrency(text, format, CURRENCY_SYMBOLS)]]
  /\ \E page \in Range(Pages) \cup {TwoPricePage} : InitScanner(page)
  /\ InitWorker(NoStoredSettings, NullRates)
  /\ InitParse(<<>>, "auto")
  /\ InitLayout(NoGeometry)
  /\ InitResolve(<<"USD">>, "")

SpecQuiesce ==
  /\ InitQuiesce
  /\ [][NextQuiesce]_vars
  /\ WF_vars(ObserverCallback)
  /\ WF_vars(DebounceTimer)
  /\ WF_vars(AnimationEnd)

(***************************************************************************)
(* The selection flow (content.js): the content script and its callers     *)
(* call detectCurrency on the selected text.                               *)
(***************************************************************************)
MaxPhrases == 2
MaxCalls   == 2

\* The pieces the selected texts are made of.
Phrases ==
  << <<"$", "5">>,
     <<"U00A5", "7">>,
     <<"$", "0">>,
     <<"0", " ", "e", "u", "r", ",", "7", " ", "e", "u", "r">>,
     <<"7", " ", "e", "u", "r">>,
     <<"U", "S", "D", " ", "9">>,
     <<"A", "B", "C", " ", "5">>,
     <<"9", " ", "R", "o", "o", "m", "s">>,
     <<"C", "A", "R", " ", "9">>,
     <<"U", "S", "D", " ", "0", ",">>,
     <<" ">> >>

Texts ==
  UNION {{Flatten([k \in 1..n |-> Phrases[f[k]]]) : f \in [1..n -> DOMAIN Phrases]} :
         n \in 0..MaxPhrases}

NumberFormats == {"auto", "us", "eu"}

\* settings.defaultDollarCurrency ("" when it is not set)
DollarCurrencies == {"", "USD", "AUD"}

InitDetect ==
  /\ currencySymbols = CURRENCY_SYMBOLS
  /\ selText \in Texts
  /\ formatSetting \in NumberFormats
  /\ detections = <<>>
  /\ lastDetection = NoDetection
  /\ CurrencyDetector = <<>>
  /\ InitScanner(Pages[1])
  /\ InitWorker(NoStoredSettings, NullRates)
  /\ InitParse(<<>>, "auto")
  /\ InitLayout(NoGeometry)
  /\ InitResolve(<<"USD">>, "")

\* A caller calls CurrencyDetector.detectCurrency(text, numberFormat) and
\* keeps what it returns.
CallDetect ==
  /\ Len(detections) < MaxCalls
  /\ detections' = Append(detections,
                     detectCurrency(selText, formatSetting, currencySymbols))
  /\ UNCHANGED <<currencySymbols, selText, formatSetting, lastDetection>>
  /\ UNCHANGED <<scanVars, otherVars>>

\* detection.currencies after lines 58-65: the preferred code, when it is in
\* the list and not first, is spliced out and unshifted.
PreferDefault(list, defaultDollarCurrency) ==
  LET idx == FirstIndex(list, LAMBDA code : code = defaultDollarCurrency) - 1
  IN  IF Len(list) > 1 /\ defaultDollarCurrency # "" /\ idx > 0
      THEN <<defaultDollarCurrency>> \o SubSeq(list, 1, idx)
                                     \o SubSeq(list, idx + 2, Len(list))
      ELSE list

\* processSelection from line 51 on, with text and detection as computed at
\* lines 41-49.  The list it reorders is the object detectCurrency
\* returned: the array of CURRENCY_SYMBOLS itself when detection.ref > 0.
processSelection(text, detection, defaultDollarCurrency) ==
  IF Len(text) = 0 \/ Len(text) > 200 \/ detection = NoDetection
  THEN /\ lastDetection' = NoDetection
       /\ UNCHANGED <<currencySymbols, selText, formatSetting, detections>>
       /\ UNCHANGED <<scanVars, otherVars>>
  ELSE /\ currencySymbols' =
            IF detection.ref > 0
            THEN [currencySymbols EXCEPT ![detection.ref].codes =
                    PreferDefault(detection.currencies, defaultDollarCurrency)]
            ELSE currencySymbols
       /\ lastDetection' =
            [amount        |-> detection.amount,
             currencies    |-> PreferDefault(detection.currencies,
                                             defaultDollarCurrency),
             original      |-> detection.original,
             symbol        |-> detection.symbol,
             ref           |-> detection.ref,
             selectionText |-> text]
       /\ UNCHANGED <<selText, formatSetting, detections>>
       /\ UNCHANGED <<scanVars, otherVars>>

\* processSelection, run by the debounce timer of onSelectionChange, under a
\* setting defaultDollarCurrency
ProcessSelection ==
  \E defaultDollarCurrency \in DollarCurrencies :
    processSelection(Trim(selText),
                    detectCurrency(Trim(selText), formatSetting, currencySymbols),
                    defaultDollarCurrency)

NextDetect == CallDetect \/ ProcessSelection

SpecDetect == InitDetect /\ [][NextDetect]_vars

(***************************************************************************)
(* Properties of the detector, under SpecDetect.                           *)
(***************************************************************************)
\* The four fields of a Detection.
DetectionFields(d) ==
  IF d = NoDetection THEN d
  ELSE [amount |-> d.amount, currencies |-> d.currencies,
        original |-> d.original, symbol |-> d.symbol]

\* What the holder of a returned Detection reads from it now: its
\* currencies are the array of CURRENCY_SYMBOLS when it is that array.
Observed(d) ==
  IF d = NoDetection THEN d
  ELSE IF d.ref = 0 THEN DetectionFields(d)
  ELSE [DetectionFields(d) EXCEPT !.currencies = currencySymbols[d.ref].codes]

\* C8: detect is pure and deterministic: two calls with the same text and
\* mode return equal Detections whatever happened between them, and a
\* Detection, once returned, reads the same ever after.
C8_DetectIsPure ==
  \A a \in DOMAIN detections :
    /\ \A b \in DOMAIN detections :
         DetectionFields(detections[a]) = DetectionFields(detections[b])
    /\ Observed(detections[a]) = DetectionFields(detections[a])

\* C9: every Detection that detect returns has a non-empty currencies list
\* and a finite amount strictly greater than 0; a candidate whose indicator
\* maps to no code or whose amount is not such a number gives no Detection.
C9_DetectionWellFormed ==
  \A a \in DOMAIN detections :
    detections[a] # NoDetection =>
      /\ Len(detections[a].currencies) > 0
      /\ detections[a].amount.kind = "num"
      /\ detections[a].amount.n > 0

\* C9 witness: detect returned a Detection for "$0" followed by the yen sign
\* and 7, the candidate "$0" having been turned down for its amount.
C9_Witness ==
  /\ selText = <<"$", "0", "U00A5", "7">>
  /\ Len(detections) > 0
  /\ detections[1] # NoDetection
  /\ detections[1].currencies = <<"JPY", "CNY">>

\* The keyword candidate that starts at i, as accepted: number before
\* keyword, or keyword before number.
KeywordCandidateAt(t, i, numberFormat, tab) ==
  OrElse(Accept(kwAfterAt(t, ToLowerCase(t), i), numberFormat, tab),
         Accept(kwBeforeAt(t, ToLowerCase(t), i), numberFormat, tab))

\* The symbol candidate that starts at i, as accepted.
RECURSIVE SymbolCandidateAt(_, _, _, _, _)
SymbolCandidateAt(t, i, numberFormat, tab, k) ==
  IF k > Len(sortedSymbols) THEN NoDetection
  ELSE OrElse(
         Accept(IF StartsAt(t, i, sortedSymbols[k])
                THEN IndicatorThenNumber(t, i, Len(sortedSymbols[k]))
                ELSE NoMatch, numberFormat, tab),
         OrElse(
           Accept(NumberThenIndicator(t, i,
                    LAMBDA p : IF StartsAt(t, p, sortedSymbols[k])
                               THEN Len(sortedSymbols[k]) ELSE 0),
                  numberFormat, tab),
           SymbolCandidateAt(t, i, numberFormat, tab, k + 1)))

\* C10: the strategies are tried in the order keyword, ISO code, symbol: for
\* a text in which a keyword and a symbol are each adjacent to a parsable
\* positive number, the Detection returned is a keyword one.
C10_KeywordBeforeSymbol ==
  \A a \in DOMAIN detections :
    (/\ \E i \in 1..Len(Trim(selText)) :
          KeywordCandidateAt(Trim(selText), i, formatSetting, currencySymbols)
            # NoDetection
     /\ \E i \in 1..Len(Trim(selText)) :
          SymbolCandidateAt(Trim(selText), i, formatSetting, currencySymbols, 1)
            # NoDetection)
    => \E i \in 1..Len(Trim(selText)) :
         /\ detections[a] # NoDetection
         /\ DetectionFields(detections[a]) =
              DetectionFields(KeywordCandidateAt(Trim(selText), i, formatSetting,
                                                 CURRENCY_SYMBOLS))

(***************************************************************************)
(* The symbol and ISO strategies, under SpecDetect.                        *)
(***************************************************************************)
IsAlnum(c) == IsDigit(c) \/ IsUpper(c) \/ IsLower(c)

\* The match the symbol strategy accepts in t, with the side its symbol is
\* on: the first symbol of sortedSymbols whose "symbol before number" match
\* is accepted, else the first whose "number before symbol" match is.
SymbolMatch(t, numberFormat, tab) ==
  LET kb == FirstIndex(sortedSymbols, LAMBDA symbol :
              Accept(symBeforeRe(t, symbol), numberFormat, tab) # NoDetection)
      ka == FirstIndex(sortedSymbols, LAMBDA symbol :
              Accept(symAfterRe(t, symbol), numberFormat, tab) # NoDetection)
  IN  IF kb > 0 THEN [m |-> symBeforeRe(t, sortedSymbols[kb]), before |-> TRUE]
      ELSE IF ka > 0 THEN [m |-> symAfterRe(t, sortedSymbols[ka]), before |-> FALSE]
      ELSE [m |-> NoMatch, before |-> FALSE]

\* The character next to the matched symbol, on the side away from the
\* number, is a letter or a digit.
InsideWord(t, sm) ==
  LET far == IF sm.before THEN sm.m.index - 1
             ELSE sm.m.index + Len(sm.m.whole)
  IN  far >= 1 /\ far <= Len(t) /\ IsAlnum(t[far])

\* detectCurrency(selText) is the Detection of the symbol strategy.
BySymbol(d) ==
  /\ d # NoDetection
  /\ keywordStrategy(Trim(selText), formatSetting, currencySymbols) = NoDetection
  /\ isoStrategy(Trim(selText), formatSetting) = NoDetection

\* C27: a symbol indicator is never matched when the character right before
\* it or right after it, on the side away from the number, is alphanumeric:
\* a symbol that is part of a longer word next to a number ("9 Rooms",
\* "CAR 9") yields no symbol detection.
C27_SymbolNotInsideWord ==
  \A a \in DOMAIN detections :
    BySymbol(detections[a]) =>
      ~InsideWord(Trim(selText),
                  SymbolMatch(Trim(selText), formatSetting, currencySymbols))

\* The ISO candidate that starts at i, as accepted: a word-bounded supported
\* code before a parsable positive number, or such a number before the code.
IsoCandidateAt(t, i, numberFormat) ==
  OrElse(AcceptIso(IF WordBoundary(t, i) /\ IsoAt(t, i)
                   THEN IndicatorThenNumber(t, i, 3) ELSE NoMatch, numberFormat),
         AcceptIso(NumberThenIndicator(t, i,
                     LAMBDA p : IF IsoAt(t, p) /\ WordBoundary(t, p + 3)
                                THEN 3 ELSE 0),
                   numberFormat))

\* A keyword that is not itself a supported code in upper case is adjacent
\* to a number at i.
KeywordIndicatorAt(t, i) ==
  \/ kwAfterAt(t, ToLowerCase(t), i).found
       /\ CodeOf(kwAfterAt(t, ToLowerCase(t), i).ind) = ""
  \/ kwBeforeAt(t, ToLowerCase(t), i).found
       /\ CodeOf(kwBeforeAt(t, ToLowerCase(t), i).ind) = ""

\* C28: if a text with no keyword indicator contains a word-bounded
\* supported ISO code adjacent to a parsable positive number, detect returns
\* a Detection whose currencies are that code alone, also when an
\* unsupported three-letter token adjacent to a number comes earlier.
C28_IsoCodeFound ==
  \A a \in DOMAIN detections :
    LET t == Trim(selText)
    IN  (/\ \A i \in 1..Len(t) : ~KeywordIndicatorAt(t, i)
         /\ \E i \in 1..Len(t) : IsoCandidateAt(t, i, formatSetting) # NoDetection)
        => /\ detections[a] # NoDetection
           /\ \E i \in 1..Len(t) :
                /\ IsoCandidateAt(t, i, formatSetting) # NoDetection
                /\ detections[a].currencies =
                     IsoCandidateAt(t, i, formatSetting).currencies

(***************************************************************************)
(* The properties of the scanner.  "happened" tells what the last handler  *)
(* did: the runs of detection (log), the regions it restored (restored)    *)
(* and the animationend listeners it ran (calls).                          *)
(***************************************************************************)
\* The regions of the document that bear the converted marker.
markedRegions == querySelectorAll(document, documentBody, REPLACED_CLASS)

\* C1: budget invariant.  In every reachable state replacementCount is at
\* most settings.autoReplaceLimit, and no run of detection that found the
\* count at the limit has started a replacement.
C1_BudgetInvariant ==
  /\ settings # NoSettings => replacementCount <= settings.autoReplaceLimit
  /\ \A k \in DOMAIN happened.log :
       happened.log[k].over => ~happened.log[k].started

\* C2: disabling mid-session.  After updateSettings with extensionEnabled =
\* false, called while the scanner was enabled, no region of the document
\* bears the converted marker and replacementCount is 0.
C2_DisableRestoresAll ==
  (/\ happened.op = "updateSettings"
   /\ happened.wasEnabled
   /\ ~settings.extensionEnabled)
  => (markedRegions = <<>> /\ replacementCount = 0)

\* A disabling updateSettings has restored a region of an enabled scanner.
C2_Witness ==
  /\ happened.op = "updateSettings"
  /\ happened.wasEnabled
  /\ ~settings.extensionEnabled
  /\ happened.restored # <<>>
  /\ happened.countAtEntry > 0

\* C3: round trip.  A region that has been converted and then restored
\* reads exactly what it read before its conversion; and if nothing but
\* this conversion was counted when the one region was restored,
\* replacementCount is back at the value it had before the conversion.
C3_RoundTrip ==
  \A k \in DOMAIN happened.restored :
    /\ happened.restored[k].text = happened.restored[k].before
    /\ (/\ Len(happened.restored) = 1
        /\ happened.op = "updateSettings"
        /\ ~isEnabled
        /\ happened.countAtEntry = happened.restored[k].countBefore + 1)
       => replacementCount = happened.restored[k].countBefore

\* C4: idempotence of scanning.  A scan, full or incremental, that comes to
\* an already converted price, that is to the text the scanner has written
\* in a region bearing the converted marker, or to a price element that is
\* or holds such a region, starts no replacement and leaves the document
\* and replacementCount as they are.
C4_ScanIdempotent ==
  \A k \in DOMAIN happened.log :
    (happened.log[k].written \/ happened.log[k].holds)
    => (~happened.log[k].started /\ ~happened.log[k].changed)

\* C5: missing-rate safety.  When the rate table is null or lacks the rate
\* of the source or of the target currency, processing a detected amount
\* starts no replacement, changes neither the document nor
\* replacementCount.
C5_MissingRateSafe ==
  \A k \in DOMAIN happened.log :
    happened.log[k].noRate
    => (~happened.log[k].started /\ ~happened.log[k].changed)

\* A scan has detected an amount of a currency for which, or for whose
\* target, the rate table has no rate.
C5_Witness ==
  \E k \in DOMAIN happened.log :
    /\ happened.log[k].found
    /\ happened.log[k].noRate
    /\ ~happened.log[k].started

\* C6: a region bearing the converted marker is never re-scanned.  No scan
\* runs detection on a text inside such a region, nor on a price element
\* that is or holds such a region.
C6_MarkedNeverRescanned ==
  \A k \in DOMAIN happened.log :
    /\ ~happened.log[k].holds
    /\ document[happened.log[k].node].nodeType = "TEXT"
         => ~happened.log[k].inside

\* C7: a region removed before its animationend listener runs.  The
\* listener leaves the document as it is, and replacementCount is not
\* incremented for the replacement: if nothing but this replacement was
\* counted since it was started, replacementCount is what it was before.
C7_RemovedRegionNotCounted ==
  \A k \in DOMAIN happened.calls :
    happened.calls[k].removed
    => /\ ~happened.calls[k].mutated
       /\ happened.countAtEntry = happened.calls[k].countBefore + 1
            => replacementCount = happened.calls[k].countBefore
(***************************************************************************)
(* The entry points of the scanner: properties.                            *)
(***************************************************************************)
\* C15: init is an idempotent bootstrap.  When init has been called with
\* settings under which the scanner runs, and is called again with the same
\* settings and rates, no other entry point having been called and the page
\* not having changed, whether the animations of the first call have ended
\* or not, the second call leaves the state the first has led to: the same
\* document, the same replacements in transition, the same
\* replacementCount, and one watcher.
C15_InitIdempotent ==
  [][(/\ initialised /\ updates = 0 /\ pageOps = 0
      /\ isEnabled
      /\ happened'.op = "init"
      /\ settings' = settings /\ rates' = rates)
     => (/\ document' = document
         /\ listeners' = listeners
         /\ replacementCount' = replacementCount
         /\ observer'
         /\ Len(watchers') = 1)]_vars

\* The replacements the last handler has started.
startedByLast == SelectSeq(happened.log, LAMBDA entry : entry.started)

\* The settings under which the scanner must not run.
MustNotRun(config) ==
  \/ ~config.extensionEnabled
  \/ config.conversionMode # "auto"
  \/ hostname \in config.disabledDomains

\* C16: init with settings under which the scanner must not run
\* (extensionEnabled false, a conversion mode other than auto, or the site
\* among the disabled domains) runs no detection, changes nothing in the
\* document, starts no replacement, leaves replacementCount as it was, and
\* leaves no observer connected.
C16_InitDisabled ==
  [][(happened'.op = "init" /\ MustNotRun(settings'))
     => (/\ happened'.log = <<>>
         /\ document' = document
         /\ listeners' = listeners
         /\ replacementCount' = replacementCount
         /\ ~isEnabled'
         /\ ~observer')]_vars

\* init, called with such settings while an observer was connected, has
\* disconnected it.
C16_Witness ==
  /\ happened.op = "init"
  /\ happened.wasEnabled
  /\ MustNotRun(settings)
  /\ watchers # <<>>
  /\ ~observer
  /\ replacementCount > 0

\* C17: updateSettings, called while the scanner is enabled, with settings
\* under which it stays enabled and a changed target currency, default
\* dollar currency or number format: afterwards no region bears the marker
\* of a conversion made under the old settings, and the replacements in
\* transition are those the scan of this call has started under the new
\* settings.
C17_ParamsChangedRescan ==
  [][(/\ isEnabled /\ isEnabled'
      /\ happened'.op = "updateSettings"
      /\ settings # NoSettings
      /\ paramsChanged(settings, settings'))
     => (/\ querySelectorAll(document', documentBody, REPLACED_CLASS) = <<>>
         /\ Len(listeners') = Len(SelectSeq(happened'.log, LAMBDA entry : entry.started)))]_vars

\* C18: restoreAll.  When restoreAll has run, no region of the document
\* bears the converted marker, each region that bore it has given way to a
\* text that reads the original text of its record, and replacementCount
\* has been set to 0: it is 0 after a disabling updateSettings, and the
\* number of the replacements started since after a rescanning one.
C18_RestoreAll ==
  (happened.op = "updateSettings" /\ happened.wasEnabled
     /\ (~isEnabled \/ happened.restored # <<>>)) =>
    /\ markedRegions = <<>>
    /\ \A k \in DOMAIN happened.restored :
         /\ document[happened.restored[k].node].parentNode = 0
         /\ document[happened.restored[k].by].data
              = document[happened.restored[k].node].dataset.original
    /\ replacementCount = IF isEnabled THEN Len(startedByLast) ELSE 0

\* updateSettings, leaving the auto mode, has restored two regions.
C18_Witness ==
  /\ happened.op = "updateSettings"
  /\ happened.wasEnabled
  /\ ~isEnabled
  /\ Len(happened.restored) = 2
  /\ markedRegions = <<>>

\* C19: the lifecycle.  After init or updateSettings has taken the scanner
\* from enabled to disabled, no region bears the converted marker and
\* replacementCount is 0 (every replacement record has been reverted) and
\* no observer is connected; and in every state an observer is connected
\* if and only if the scanner is enabled.
C19_Lifecycle ==
  /\ (happened.op \in {"init", "updateSettings"} /\ happened.wasEnabled /\ ~isEnabled) =>
       (markedRegions = <<>> /\ replacementCount = 0 /\ ~observer)
  /\ observer <=> isEnabled

(***************************************************************************)
(* The watcher and its debounced pass: properties.                         *)
(***************************************************************************)
\* The watcher whose debounce timer fires in this step, or 0.
firing ==
  IF happened'.op # "timer" THEN 0
  ELSE CHOOSE w \in DOMAIN watchers : watchers'[w] # watchers[w]

C22_Debounce ==
  [][/\ happened'.op = "observer"
        => \A w \in DOMAIN watchers :
             /\ Len(watchers'[w].pendingNodes) >= Len(watchers[w].pendingNodes)
             /\ SubSeq(watchers'[w].pendingNodes, 1, Len(watchers[w].pendingNodes))
                  = watchers[w].pendingNodes
     /\ happened'.op = "timer"
        => /\ watchers'[firing].pendingNodes = <<>>
           /\ happened'.log # <<>> => ~watchers[firing].notified]_vars

\* The regions the firing timer finds in its queue.
collected == watchers[firing].pendingNodes

\* Region n is not in the document.
Gone(n) == ~Contains(document, documentBody, n)

\* C23: a collected region that is no longer in the document when the
\* debounced pass runs is dropped.  Detection runs on no node of it and no
\* node of it is changed; a pass that finds only such regions leaves the
\* document, the replacements in transition and replacementCount as they
\* were; and the pass goes on: the budget allowing, the first collected
\* region still in the document, when it is a text segment, goes through
\* detection although regions before it were dropped.
C23_RemovedRegionDropped ==
  [][happened'.op = "timer"
     => /\ \A k \in DOMAIN collected :
             Gone(collected[k])
             => \A m \in Range(Subtree(document, collected[k])) :
                  /\ document'[m] = document[m]
                  /\ \A e \in DOMAIN happened'.log : happened'.log[e].node # m
        /\ (\A k \in DOMAIN collected : Gone(collected[k]))
             => /\ document' = document
                /\ listeners' = listeners
                /\ replacementCount' = replacementCount
        /\ \A k \in DOMAIN collected :
             (/\ ~Gone(collected[k])
              /\ document[collected[k]].nodeType = "TEXT"
              /\ \A j \in 1..(k - 1) : Gone(collected[j])
              /\ replacementCount < settings.autoReplaceLimit)
             => \E e \in DOMAIN happened'.log :
                  happened'.log[e].node = collected[k]]_vars

\* A debounced pass has run on a queue whose first region had left the
\* document, and has run detection on a region queued behind it.
C23_Witness ==
  /\ happened.op = "timer"
  /\ happened.log # <<>>
  /\ happened.skippedCount > 0

\* Node n bears the converted marker or the marker of a transition.
BearsMarker(n) ==
  document[n].nodeType = "ELEMENT"
  /\ (REPLACED_CLASS \in document[n].classList
      \/ FADING_CLASS \in document[n].classList)

\* The regions in the queues of the watchers.
queued == UNION {Range(watchers[w].pendingNodes) : w \in DOMAIN watchers}

\* C24: what the watcher collects.  Every region a notification adds to
\* the queue is a node the notification reports as added, and is an
\* element that bears neither the converted marker nor the marker of a
\* transition, or a text segment that is not blank; and a region that
\* bears one of the markers, such as the ones the scanner itself inserts,
\* is in no queue.
C24_CollectsUnmarked ==
  /\ [](\A n \in queued : ~BearsMarker(n))
  /\ [][happened'.op = "observer"
        => \A w \in DOMAIN watchers :
             \A k \in (Len(watchers[w].pendingNodes) + 1)
                        ..Len(watchers'[w].pendingNodes) :
               LET n == watchers'[w].pendingNodes[k]
               IN  /\ n \in Range(Flatten(mutationRecords))
                   /\ ~BearsMarker(n)
                   /\ document[n].nodeType = "TEXT" => Trim(document[n].data) # <<>>]_vars

\* A notification has reported a region that the scanner had inserted and
\* that bore a marker, and the watcher has collected from that
\* notification.
C24_Witness ==
  /\ happened.op = "observer"
  /\ \E n \in Range(Flatten(happened.mutations)) : BearsMarker(n)
  /\ \E w \in DOMAIN watchers :
       watchers[w].debounceTimer /\ ~watchers[w].notified

\* C25: the eligibility rules hold for every candidate, text segment and
\* composite container alike.  No replacement is started for a candidate
\* that has an ancestor with an excluded tag, an ancestor bearing the
\* converted marker, or the tooltip as an ancestor.
C25_EligibilityForAll ==
  \A k \in DOMAIN happened.log :
    happened.log[k].started => ~happened.log[k].skip

\* The runs of detection of the last handler on composite containers.
compositeRuns ==
  {k \in DOMAIN happened.log : document[happened.log[k].node].nodeType = "ELEMENT"}

\* Container a lies inside container b.
Nested(a, b) == a # b /\ Contains(document, b, a)

\* C26: within one pass of the scanner over a subtree, a composite
\* container that is or holds a converted region is not processed, and of
\* two composite containers of which one lies inside the other at most one
\* is processed, the outer one.
C26_OuterContainerOnly ==
  \A j \in compositeRuns :
    /\ ~happened.log[j].holds
    /\ \A k \in compositeRuns :
         happened.log[j].pass = happened.log[k].pass
         => ~Nested(happened.log[j].node, happened.log[k].node)

\* A pass has processed a composite container that holds another one.
C26_Witness ==
  \E j \in compositeRuns :
    /\ happened.log[j].started
    /\ \E inner \in DOMAIN document :
         /\ PRICE_CLASS \in document[inner].classList
         /\ Nested(inner, happened.log[j].node)

(***************************************************************************)
(* Failures: properties.                                                   *)
(***************************************************************************)
\* The step is a full scan of the document as it stands: init, or
\* updateSettings that enables the scanner, with rates.
FullScan ==
  /\ \/ happened'.op = "init"
     \/ happened'.op = "updateSettings" /\ ~isEnabled
  /\ isEnabled'
  /\ ~rates'.null

\* C29: a failure on one region does not abort the pass.  In a full scan,
\* whether detection finds nothing, the rate is missing or the write to
\* the document throws for some text segment, every text segment the
\* scanner accepts goes through detection, unless the budget is used up
\* when the pass ends.
C29_FailureDoesNotAbort ==
  [][FullScan
     => \A c \in Range(acceptedTextNodes(document, documentBody)) :
          \/ \E e \in DOMAIN happened'.log : happened'.log[e].node = c
          \/ replacementCount' >= settings'.autoReplaceLimit]_vars

\* A pass has given up the replacement of one region, the write having
\* thrown, and has started the replacement of a later one.
C29_Witness ==
  \E j, k \in DOMAIN happened.log :
    /\ j < k
    /\ happened.log[j].aborted
    /\ happened.log[k].started

\* C30: when the first write of a replacement cannot be done (the text
\* segment has no parent, the match is not found in it, or the write
\* throws), the operation is given up and the state of the scanner is as
\* before: the document, the replacements in transition and
\* replacementCount.
C30_AbortLeavesState ==
  \A k \in DOMAIN happened.log :
    happened.log[k].aborted => ~happened.log[k].changed

\* The regions of the document that are converted or in transition.
liveRegions ==
  {n \in Range(Subtree(document, documentBody)) :
     /\ document[n].nodeType = "ELEMENT"
     /\ document[n].classList \cap {REPLACED_CLASS, FADING_CLASS} # {}}

\* C32: in every reachable state the number of regions that are converted
\* or in transition is at most settings.autoReplaceLimit, also after init,
\* updateSettings or restoreAll has reset replacementCount to 0 while
\* visual transitions were pending.
C32_LiveRegionsWithinLimit ==
  settings # NoSettings => Cardinality(liveRegions) <= settings.autoReplaceLimit

\* C33: no double processing within a pass.  When a pass has started the
\* replacement of a composite container, it starts no replacement of a text
\* segment inside that container, so that a price adds at most 1 to
\* replacementCount.
C33_NoDoubleProcessing ==
  \A j \in compositeRuns :
    happened.log[j].started =>
      \A k \in DOMAIN happened.log :
        (/\ happened.log[k].pass = happened.log[j].pass
         /\ happened.log[j].node \in Range(happened.log[k].within))
        => ~happened.log[k].started

\* The regions of document d that bear class c.
RegionsOf(d, c) ==
  {n \in Range(Subtree(d, documentBody)) :
     d[n].nodeType = "ELEMENT" /\ c \in d[n].classList}

\* C34: while the scanner is disabled nothing gets converted.  Once
\* updateSettings has disabled the scanner, a debounce timer or an
\* animationend listener that fires makes no region enter the in-transition
\* or the converted state, and replacementCount stays 0.
C34_DisabledConvertsNothing ==
  [][(/\ initialised /\ updates > 0
      /\ ~isEnabled /\ ~isEnabled'
      /\ happened'.op \in {"timer", "animationend"})
     => /\ RegionsOf(document', FADING_CLASS) \subseteq RegionsOf(document, FADING_CLASS)
        /\ RegionsOf(document', REPLACED_CLASS) \subseteq RegionsOf(document, REPLACED_CLASS)
        /\ replacementCount' = 0]_vars

\* C35: a converted region shows a value computed for the currency it is
\* labelled with.  When an animationend listener writes a region, the
\* amount it writes was converted to settings.targetCurrency, the currency
\* whose symbol it writes next to it, also after updateSettings has changed
\* the target currency.
C35_AmountMatchesLabel ==
  happened.op = "animationend" =>
    \A k \in DOMAIN happened.calls :
      happened.calls[k].mutated => happened.calls[k].target = settings.targetCurrency

\* C36: updateSettings called while the scanner is enabled and stays
\* enabled, with target currency, preferred default code and number format
\* unchanged, restores nothing, starts no scan, leaves the document,
\* replacementCount and the watcher as they are, and only replaces the
\* stored settings and rates.
C36_UnchangedParamsFrame ==
  [][(/\ happened'.op = "updateSettings"
      /\ isEnabled /\ isEnabled'
      /\ settings'.targetCurrency = settings.targetCurrency
      /\ settings'.defaultDollarCurrency = settings.defaultDollarCurrency
      /\ settings'.numberFormat = settings.numberFormat)
     => /\ happened'.restored = <<>>
        /\ happened'.log = <<>>
        /\ document' = document
        /\ replacementCount' = replacementCount
        /\ watchers' = watchers
        /\ observer' = observer
        /\ listeners' = listeners
        /\ mutationRecords' = mutationRecords]_vars

\* updateSettings has lowered the limit below the count of an enabled
\* scanner and left the count as it was: no other parameter has changed.
C36_Witness ==
  /\ happened.op = "updateSettings"
  /\ happened.wasEnabled /\ isEnabled
  /\ replacementCount > settings.autoReplaceLimit
  /\ replacementCount = happened.countAtEntry

(***************************************************************************)
(* Quiescence, under SpecQuiesce.                                          *)
(***************************************************************************)
\* Nothing is pending: no record to deliver, no queued node, no timer, no
\* transition.
Quiescent ==
  /\ mutationRecords = <<>>
  /\ listeners = <<>>
  /\ \A w \in DOMAIN watchers :
       watchers[w].pendingNodes = <<>> /\ ~watchers[w].debounceTimer

\* A full scan of the document as it is now would start no replacement:
\* the budget is used up, or no price the scanner would convert is left.
NothingLeft ==
  scanPage(Heap(observer), isEnabled, settings, rates).ls = listeners

\* C37: quiescence.  On a page that nothing else changes, the mutations of
\* the scanner itself cause finitely many debounced passes and
\* replacements: the enabled scanner comes to rest with an empty queue, no
\* timer and no transition pending, and every price it would convert is
\* converted or the budget is used up.
C37_Quiescence ==
  (initialised /\ isEnabled) ~> [](Quiescent /\ NothingLeft)

(***************************************************************************)
(* Nested composite containers, under SpecNested.                          *)
(***************************************************************************)
\* C38: a composite container is skipped as nested only when the container
\* around it was replaced in the same pass.  When a pass has examined a
\* composite container and has not replaced it, it examines the composite
\* containers inside it too.
C38_NestedExaminedUnlessReplaced ==
  \A j \in compositeRuns :
    ~happened.log[j].started =>
      \A inner \in DOMAIN document :
        (PRICE_CLASS \in document[inner].classList
           /\ Nested(inner, happened.log[j].node))
        => \E k \in compositeRuns :
             /\ happened.log[k].node = inner
             /\ happened.log[k].pass = happened.log[j].pass
(***************************************************************************)
(* The layout adjuster (page-scanner.js:825-882).  Lengths are whole       *)
(* numbers of px; a font size is a fraction n/d of px.                     *)
(***************************************************************************)
\* n/d px
Px(n, d) == [px |-> TRUE, n |-> n, d |-> d]

\* originalRect is null
NoRect == [none |-> TRUE]

\* The rect of the first of at most five ancestors whose right edge is more
\* than 20px right of the text's, else the rect of document.body: its right
\* edge.
containerRect(g) ==
  LET near == SubSeq(g.ancestors, 1, IF Len(g.ancestors) < 5 THEN Len(g.ancestors) ELSE 5)
      k    == FirstIndex(near, LAMBDA right : right > g.newRect.right + 20)
  IN  IF k > 0 THEN near[k] ELSE g.body

lineJumped(g) == g.newRect.top > g.originalRect.top + 5

\* newRect.height > originalRect.height * 1.5
wrapped(g) == 2 * g.newRect.height > 3 * g.originalRect.height

overflows(g) == g.newRect.right > containerRect(g) - 2

\* parseFloat(computedStyle.fontSize) || 14
currentFontSize(g) == IF g.fontSize = 0 THEN 14 ELSE g.fontSize

\* element.style after adjustSizeIntelligently(element, originalRect), g
\* being what the browser reports once the font size is reset (836-839).  A
\* newRect of width 0 makes the ratio Infinity: 'Infinitypx' is no font
\* size, and the assignment of line 879 leaves the '' of line 836.
adjustSizeIntelligently(st, g) ==
  IF g.originalRect = NoRect \/ g.originalRect.width <= 0 \/ g.ancestors = <<>>
  THEN st
  ELSE IF lineJumped(g) \/ wrapped(g) \/ overflows(g)
  THEN LET n == currentFontSize(g) * g.originalRect.width
           d == g.newRect.width
       IN  [fontSize |-> IF d = 0 THEN Natural
                         ELSE IF n < 8 * d THEN Px(8, 1)
                         ELSE Px(n, d),
            whiteSpace |-> "nowrap"]
  ELSE [fontSize |-> Natural, whiteSpace |-> "nowrap"]

\* The rects of the original text: none, or at the left edge 0 with top 100
\* and height 20.
OriginalRects ==
  {NoRect} \cup {[top |-> 100, height |-> 20, width |-> w] : w \in {0, 40, 100}}

\* The rects of the replaced region at its natural size.
NewRects ==
  {[top |-> t, height |-> h, width |-> w, right |-> w] :
     t \in {100, 120}, h \in {20, 40}, w \in {0, 50, 100, 200}}

\* The right edges of the region's ancestors, the parent first.
AncestorChains == {<<>>, <<60>>, <<60, 300>>, <<60, 60, 60, 60, 60, 300>>}

BodyRights == {150, 400}

\* The computed font sizes in px (0: what parseFloat turns into 0 or NaN)
FontSizes == {0, 6, 8, 14, 16}

Geometries ==
  [originalRect : OriginalRects, newRect : NewRects, ancestors : AncestorChains,
   body : BodyRights, fontSize : FontSizes]

\* The animationend listener calls adjustSizeIntelligently on the region it
\* has just written (524, 813).
CallAdjust ==
  /\ adjustCalls = 0
  /\ style' = adjustSizeIntelligently(style, geometry)
  /\ adjustCalls' = adjustCalls + 1
  /\ UNCHANGED geometry
  /\ UNCHANGED <<detectVars, scanVars, workerVars, parseVars, resolveVars>>

InitLayoutSpec ==
  /\ currencySymbols = CURRENCY_SYMBOLS
  /\ selText = <<>>
  /\ formatSetting = "auto"
  /\ detections = <<>>
  /\ lastDetection = NoDetection
  /\ CurrencyDetector = <<>>
  /\ InitScanner(Pages[1])
  /\ InitWorker(NoStoredSettings, NullRates)
  /\ InitParse(<<>>, "auto")
  /\ \E g \in Geometries : InitLayout(g)
  /\ InitResolve(<<"USD">>, "")

NextLayout == CallAdjust

SpecLayout == InitLayoutSpec /\ [][NextLayout]_vars
(***************************************************************************)
(* The callers of parseNumber (currency-detector.js): parseNumber is       *)
(* exported, and detectCurrency hands it what numberPattern has matched.   *)
(***************************************************************************)
MaxPieces == 3
MaxDigits == 9

\* A literal: leading digits, then pieces of a separator and digits.
Leads == {<<"1">>, <<"1", "2">>, <<"0">>}

Pieces ==
  {<<sep>> \o digits : sep \in {".", ","},
                       digits \in {<<"0", "0", "0">>, <<"5", "0">>, <<"5">>}}

\* The number of digits of a literal
Digits(literal) == Len(SelectSeq(literal, IsDigit))

RECURSIVE LiteralsOf(_)
LiteralsOf(n) ==
  IF n = 0 THEN Leads
  ELSE LiteralsOf(n - 1) \cup
       {longer \in {literal \o piece : literal \in LiteralsOf(n - 1), piece \in Pieces} :
          Digits(longer) <= MaxDigits}

Literals == LiteralsOf(MaxPieces)

\* Amounts in hundredths.
Amounts ==
  {whole * 100 + cents : whole \in {0, 7, 12, 999, 1000, 1234, 12345, 100000, 1234567},
                         cents \in {0, 5, 7, 50, 99}}

\* s with '.' for ',' and ',' for '.'
SwapSeparators(s) ==
  [k \in DOMAIN s |-> IF s[k] = "," THEN "." ELSE IF s[k] = "." THEN "," ELSE s[k]]

\* The amount of h hundredths written by the US convention, ',' between
\* groups of three and '.' before two decimals: with its decimals, and,
\* when it has no cents, without.
FormatsUs(h) ==
  {Grouped(ToDigits(h \div 100)) \o <<".">> \o Padded(h % 100, 2)}
    \cup (IF h % 100 = 0 THEN {Grouped(ToDigits(h \div 100))} ELSE {})

\* The same by the convention of a number format: '.' between groups and
\* ',' before the decimals for eu, the US convention for us and auto.
Formats(h, format) ==
  IF format = "eu" THEN {SwapSeparators(s) : s \in FormatsUs(h)} ELSE FormatsUs(h)

Formatted == UNION {Formats(h, format) : h \in Amounts, format \in NumberFormats}

\* A caller calls CurrencyDetector.parseNumber(numStr, format).
CallParseNumber ==
  /\ parsed = <<>>
  /\ parsed' = Append(parsed, parseNumber(numberText, parseFormat))
  /\ UNCHANGED <<numberText, parseFormat>>
  /\ UNCHANGED <<detectVars, scanVars, workerVars, layoutVars, resolveVars>>

\* A caller calls detectCurrency on the literal as a price: "$" before it,
\* or " " and the euro sign after it.
DetectPrice ==
  /\ detections = <<>>
  /\ \E text \in {<<"$">> \o numberText, numberText \o <<" ", "U20AC">>} :
       detections' = Append(detections,
                       [text   |-> text,
                        result |-> detectCurrency(text, parseFormat, currencySymbols)])
  /\ UNCHANGED <<currencySymbols, selText, formatSetting, lastDetection>>
  /\ UNCHANGED <<scanVars, workerVars, parseVars, layoutVars, resolveVars>>

InitParseSpec ==
  /\ currencySymbols = CURRENCY_SYMBOLS
  /\ selText = <<>>
  /\ formatSetting = "auto"
  /\ detections = <<>>
  /\ lastDetection = NoDetection
  /\ CurrencyDetector = <<>>
  /\ InitScanner(Pages[1])
  /\ InitWorker(NoStoredSettings, NullRates)
  /\ \E literal \in Literals \cup Formatted, mode \in NumberFormats : InitParse(literal, mode)
  /\ InitLayout(NoGeometry)
  /\ InitResolve(<<"USD">>, "")

NextParse == CallParseNumber \/ DetectPrice

SpecParse == InitParseSpec /\ [][NextParse]_vars

(***************************************************************************)
(* The service worker (service-worker.js, lines 183-383).  An async        *)
(* handler runs until it awaits a chrome call; the call is sent when it is *)
(* made, and the handler goes on, at some later time, in a step of its     *)
(* own.  A suspended handler is a record of `handlers`: kind (the event),  *)
(* pc (the line of the await it waits at), and its locals.                 *)
(***************************************************************************)
MaxHandlers == 3

\* DEFAULT_SETTINGS of the shared constants
DEFAULT_SETTINGS ==
  [targetCurrency |-> "USD", defaultDollarCurrency |-> "USD",
   numberFormat |-> "auto", enabled |-> TRUE]

\* The values the popup writes under STORAGE_KEYS.SETTINGS.
WorkerSettings ==
  {[DEFAULT_SETTINGS EXCEPT !.enabled = on, !.targetCurrency = target,
                            !.defaultDollarCurrency = dollar] :
     on \in BOOLEAN, target \in {"USD", "EUR"}, dollar \in {"", "AUD", "CAD"}}

\* The detections the content script sends with 'currency-detected'.
WorkerDetections ==
  {[amount        |-> Norm(5, 0),
    currencies    |-> CURRENCY_SYMBOLS[k].codes,
    symbol        |-> CURRENCY_SYMBOLS[k].sym,
    selectionText |-> CURRENCY_SYMBOLS[k].sym \o <<"5">>] : k \in {1, 2, 4}}

\* An erroneous reordering: the preferred code changes places with the first.
reorderBySwap(currencies, preferred) ==
  LET idx == FirstIndex(currencies, LAMBDA code : code = preferred) - 1
  IN  IF preferred = "" \/ idx <= 0 THEN currencies
      ELSE [k \in DOMAIN currencies |->
              IF k = 1 THEN preferred
              ELSE IF k = idx + 1 THEN currencies[1] ELSE currencies[k]]

\* reorderCurrencies(currencies, preferred), lines 256-264
reorderCurrencies(currencies, preferred) ==
  LET idx == FirstIndex(currencies, LAMBDA code : code = preferred) - 1
  IN  IF preferred = "" THEN currencies
      ELSE IF idx <= 0 THEN currencies
      ELSE <<preferred>> \o SubSeq(currencies, 1, idx)
                         \o SubSeq(currencies, idx + 2, Len(currencies))

\* The call of reorderCurrencies, as `reordered` keeps it.
Reordering(currencies, preferred) ==
  [called |-> TRUE, currencies |-> currencies, preferred |-> preferred,
   ordered |-> reorderCurrencies(currencies, preferred)]

\* buildConvertedTitle, lines 241-251: does the title show a converted amount
HasRates(from, target, rateTable) ==
  /\ ~rateTable.null
  /\ from \in DOMAIN rateTable.rate /\ rateTable.rate[from] # 0
  /\ target \in DOMAIN rateTable.rate /\ rateTable.rate[target] # 0

\* chrome.contextMenus.create: an item whose id is taken is not created
create(menu, item) ==
  IF \E k \in DOMAIN menu : menu[k].id = item.id THEN menu ELSE Append(menu, item)

RECURSIVE createAll(_, _)
createAll(menu, items) ==
  IF items = <<>> THEN menu ELSE createAll(create(menu, Head(items)), Tail(items))

\* The items updateContextMenu creates, lines 205-234.  The id convert_X is
\* the pair <<"convert", X>>.
MenuItems(detection, config, rateTable) ==
  LET target  == config.targetCurrency
      ordered == reorderCurrencies(detection.currencies, config.defaultDollarCurrency)
      Item(from, parentId) ==
        [id |-> <<"convert", from>>, parentId |-> parentId,
         converted |-> HasRates(from, target, rateTable)]
  IN  IF Len(detection.currencies) = 1
      THEN IF detection.currencies[1] = target THEN <<>>
           ELSE <<Item(detection.currencies[1], <<>>)>>
      ELSE <<[id |-> <<"convert", "parent">>, parentId |-> <<>>, converted |-> FALSE]>>
           \o [k \in DOMAIN SelectSeq(ordered, LAMBDA from : from # target) |->
                 Item(SelectSeq(ordered, LAMBDA from : from # target)[k],
                      <<"convert", "parent">>)]

\* convertCurrency of rates.js, lines 125-143, for a finite amount and two
\* different currencies: amount / rates[from] * rates[to] as a fraction
convertCurrency(amount, from, to, rateTable) ==
  IF from \notin DOMAIN rateTable.rate \/ to \notin DOMAIN rateTable.rate
  THEN [kind |-> "throw", num |-> 0, den |-> 1]
  ELSE [kind |-> "num", num |-> amount.n * rateTable.rate[to],
        den |-> (10 ^ amount.e) * rateTable.rate[from]]

Handler(kind, pc, detection, config) ==
  [kind |-> kind, pc |-> pc, detection |-> detection, config |-> config]

Without(s, i) == SubSeq(s, 1, i - 1) \o SubSeq(s, i + 1, Len(s))

\* The handler i after updateContextMenu has returned: handleCurrencyDetected
\* goes on at line 301 and awaits getCachedRates(); the listener of
\* storage.onChanged ends.
AfterUpdateContextMenu(i) ==
  LET hd == handlers[i]
  IN  IF hd.kind = "currency-detected"
         /\ hd.detection # NoDetection
         /\ Len(hd.detection.selectionText) <= 200
      THEN [handlers EXCEPT ![i].pc = "302"]
      ELSE Without(handlers, i)

\* onMessage, lines 279-283: 'currency-detected'.  handleCurrencyDetected
\* runs to its first await, line 294.
ReceiveCurrencyDetected ==
  /\ handlerCalls < MaxHandlers
  /\ \E detection \in WorkerDetections :
       handlers' = Append(handlers,
                     Handler("currency-detected", "294", detection, NoStoredSettings))
  /\ handlerCalls' = handlerCalls + 1
  /\ UNCHANGED <<currentDetection, contextMenu, storedSettings, cachedRates,
                 tabMessages, reordered>>
  /\ UNCHANGED <<detectVars, scanVars, parseVars, layoutVars, resolveVars>>

\* onMessage, lines 285-288: 'no-currency'.  handleNoCurrency calls
\* removeAll() and awaits it, line 332.
ReceiveNoCurrency ==
  /\ handlerCalls < MaxHandlers
  /\ contextMenu' = <<>>
  /\ handlers' = Append(handlers,
                   Handler("no-currency", "332", NoDetection, NoStoredSettings))
  /\ handlerCalls' = handlerCalls + 1
  /\ UNCHANGED <<currentDetection, storedSettings, cachedRates, tabMessages, reordered>>
  /\ UNCHANGED <<detectVars, scanVars, parseVars, layoutVars, resolveVars>>

\* The settings are written, and the listener of storage.onChanged runs,
\* lines 376-380: with a current detection it calls updateContextMenu, which
\* calls removeAll() and awaits it, line 192.
SettingsChanged ==
  /\ handlerCalls < MaxHandlers
  /\ \E newValue \in WorkerSettings :
       /\ newValue # storedSettings
       /\ storedSettings' = newValue
       /\ IF currentDetection # NoDetection
          THEN /\ contextMenu' = <<>>
               /\ handlers' = Append(handlers,
                                Handler("changed", "192", currentDetection, newValue))
          ELSE UNCHANGED <<contextMenu, handlers>>
  /\ handlerCalls' = handlerCalls + 1
  /\ UNCHANGED <<currentDetection, cachedRates, tabMessages, reordered>>
  /\ UNCHANGED <<detectVars, scanVars, parseVars, layoutVars, resolveVars>>

\* handleCurrencyDetected goes on after line 294 with the settings read,
\* calls updateContextMenu, which calls removeAll() and awaits it, line 192.
ResumeAfterGet ==
  \E i \in DOMAIN handlers :
    /\ handlers[i].pc = "294"
    /\ contextMenu' = <<>>
    /\ handlers' = [handlers EXCEPT
                      ![i].pc = "192",
                      ![i].config = IF storedSettings = NoStoredSettings
                                    THEN DEFAULT_SETTINGS ELSE storedSettings]
    /\ UNCHANGED <<currentDetection, storedSettings, cachedRates, handlerCalls,
                   tabMessages, reordered>>
    /\ UNCHANGED <<detectVars, scanVars, parseVars, layoutVars, resolveVars>>

\* updateContextMenu goes on after line 192: lines 194-203.
ResumeAfterRemoveAll ==
  \E i \in DOMAIN handlers :
    /\ handlers[i].pc = "192"
    /\ IF handlers[i].detection = NoDetection \/ ~handlers[i].config.enabled
       THEN /\ currentDetection' = NoDetection
            /\ handlers' = AfterUpdateContextMenu(i)
       ELSE /\ currentDetection' = handlers[i].detection
            /\ handlers' = [handlers EXCEPT ![i].pc = "203"]
    /\ UNCHANGED <<contextMenu, storedSettings, cachedRates, handlerCalls,
                   tabMessages, reordered>>
    /\ UNCHANGED <<detectVars, scanVars, parseVars, layoutVars, resolveVars>>

\* updateContextMenu goes on after line 203 with the rates: lines 205-234.
ResumeAfterRates ==
  \E i \in DOMAIN handlers :
    /\ handlers[i].pc = "203"
    /\ contextMenu' = createAll(contextMenu,
                        MenuItems(handlers[i].detection, handlers[i].config, cachedRates))
    /\ reordered' = IF Len(handlers[i].detection.currencies) = 1 THEN reordered
                    ELSE Reordering(handlers[i].detection.currencies,
                                    handlers[i].config.defaultDollarCurrency)
    /\ handlers' = AfterUpdateContextMenu(i)
    /\ UNCHANGED <<currentDetection, storedSettings, cachedRates, handlerCalls,
                   tabMessages>>
    /\ UNCHANGED <<detectVars, scanVars, parseVars, layoutVars, resolveVars>>

\* handleCurrencyDetected goes on after line 302 with the rates: lines 303-328.
ResumeAutoDisplay ==
  \E i \in DOMAIN handlers :
    LET hd           == handlers[i]
        ordered      == reorderCurrencies(hd.detection.currencies,
                                          hd.config.defaultDollarCurrency)
        fromCurrency == ordered[1]
        amount       == convertCurrency(hd.detection.amount, fromCurrency,
                                        hd.config.targetCurrency, cachedRates)
    IN  /\ hd.pc = "302"
        /\ handlers' = Without(handlers, i)
        /\ IF cachedRates.null
           THEN UNCHANGED <<tabMessages, reordered>>
           ELSE /\ reordered' = Reordering(hd.detection.currencies,
                                           hd.config.defaultDollarCurrency)
                /\ tabMessages' =
                     IF fromCurrency = hd.config.targetCurrency \/ amount.kind = "throw"
                     THEN tabMessages
                     ELSE Append(tabMessages,
                            [type               |-> "show-conversion",
                             originalAmount     |-> hd.detection.amount,
                             originalCurrency   |-> fromCurrency,
                             originalSymbol     |-> hd.detection.symbol,
                             possibleCurrencies |-> hd.detection.currencies,
                             convertedAmount    |-> amount,
                             targetCurrency     |-> hd.config.targetCurrency])
        /\ UNCHANGED <<currentDetection, contextMenu, storedSettings, cachedRates,
                       handlerCalls>>
        /\ UNCHANGED <<detectVars, scanVars, parseVars, layoutVars, resolveVars>>

\* handleNoCurrency goes on after line 332: line 333.
ResumeNoCurrency ==
  \E i \in DOMAIN handlers :
    /\ handlers[i].pc = "332"
    /\ currentDetection' = NoDetection
    /\ handlers' = Without(handlers, i)
    /\ UNCHANGED <<contextMenu, storedSettings, cachedRates, handlerCalls,
                   tabMessages, reordered>>
    /\ UNCHANGED <<detectVars, scanVars, parseVars, layoutVars, resolveVars>>

InitWorkerSpec ==
  /\ currencySymbols = CURRENCY_SYMBOLS
  /\ selText = <<>>
  /\ formatSetting = "auto"
  /\ detections = <<>>
  /\ lastDetection = NoDetection
  /\ CurrencyDetector = <<>>
  /\ InitScanner(Pages[1])
  /\ InitParse(<<>>, "auto")
  /\ InitLayout(NoGeometry)
  /\ InitResolve(<<"USD">>, "")
  /\ \E rateTable \in RateTables : InitWorker(NoStoredSettings, rateTable)

NextWorker ==
  \/ ReceiveCurrencyDetected
  \/ ReceiveNoCurrency
  \/ SettingsChanged
  \/ ResumeAfterGet
  \/ ResumeAfterRemoveAll
  \/ ResumeAfterRates
  \/ ResumeAutoDisplay
  \/ ResumeNoCurrency

SpecWorker == InitWorkerSpec /\ [][NextWorker]_vars

(***************************************************************************)
(* The two resolutions of an ambiguous symbol.  The page scanner picks the *)
(* source currency inline (page-scanner.js, lines 400-403 and 555-558);    *)
(* the service worker reorders the candidates and takes the first          *)
(* (service-worker.js, lines 256-264 and 306-307).  Both are applied to    *)
(* the same candidate list and the same preferred code.                    *)
(***************************************************************************)
MaxCandidates == 3

\* The codes the candidate lists are made of, and the codes a user can
\* prefer: unset, the candidates, and a code that is no candidate.
CandidateCodes == {"USD", "AUD", "CAD"}

DollarSettings == {""} \cup CandidateCodes \cup {"EUR"}

\* detection.currencies: the lists of the symbol table and every non-empty
\* list of at most MaxCandidates codes.
ResolveLists ==
  {CURRENCY_SYMBOLS[k].codes : k \in DOMAIN CURRENCY_SYMBOLS}
    \cup UNION {[1..n -> CandidateCodes] : n \in 1..MaxCandidates}

\* processTextNode, lines 554-558, and processCompositeElement, lines
\* 399-403: the source currency of the detection.
ScannerResolves ==
  /\ ~resolutions.scanned
  /\ resolutions' = [resolutions EXCEPT
       !.scanned = TRUE,
       !.fromCurrency = ResolveCurrency([currencies |-> candidateList],
                                        [defaultDollarCurrency |-> dollarSetting])]
  /\ UNCHANGED <<candidateList, dollarSetting>>
  /\ UNCHANGED <<detectVars, scanVars, workerVars, parseVars, layoutVars>>

\* handleCurrencyDetected, lines 306-307: reorderCurrencies and the first
\* of what it returns.
WorkerReorders ==
  /\ ~resolutions.asked
  /\ resolutions' = [resolutions EXCEPT
       !.asked = TRUE,
       !.ordered = reorderCurrencies(candidateList, dollarSetting)]
  /\ UNCHANGED <<candidateList, dollarSetting>>
  /\ UNCHANGED <<detectVars, scanVars, workerVars, parseVars, layoutVars>>

InitResolveSpec ==
  /\ currencySymbols = CURRENCY_SYMBOLS
  /\ selText = <<>>
  /\ formatSetting = "auto"
  /\ detections = <<>>
  /\ lastDetection = NoDetection
  /\ CurrencyDetector = <<>>
  /\ InitScanner(Pages[1])
  /\ InitWorker(NoStoredSettings, NullRates)
  /\ InitParse(<<>>, "auto")
  /\ InitLayout(NoGeometry)
  /\ \E c \in ResolveLists, p \in DollarSettings : InitResolve(c, p)

NextResolve == ScannerResolves \/ WorkerReorders

SpecResolve == InitResolveSpec /\ [][NextResolve]_vars

(***************************************************************************)
(* Properties of the layout adjuster, under SpecLayout.                    *)
(***************************************************************************)
\* The layout of the region is broken.
Broken(g) == lineJumped(g) \/ wrapped(g) \/ overflows(g)

\* adjustSizeIntelligently went past its two early returns.
Measured(g) == g.originalRect # NoRect /\ g.originalRect.width > 0 /\ g.ancestors # <<>>

\* C31: when the layout of the replaced region is broken its font size is
\* shrunk: the new size is never larger than the size before the adjustment
\* and is at least 8 whenever the size before was at least 8; when the
\* layout is not broken the font size is left at its natural value.
C31_ShrinkOnly ==
  (adjustCalls > 0 /\ Measured(geometry)) =>
    IF Broken(geometry)
    THEN /\ style.fontSize.px
         /\ style.fontSize.n <= currentFontSize(geometry) * style.fontSize.d
         /\ currentFontSize(geometry) >= 8 => style.fontSize.n >= 8 * style.fontSize.d
    ELSE style.fontSize = Natural
(***************************************************************************)
(* parseNumber: properties, under SpecParse.                               *)
(***************************************************************************)
Text1000_50us == <<"1", ",", "0", "0", "0", ".", "5", "0">>
Text1000_50eu == <<"1", ".", "0", "0", "0", ",", "5", "0">>

\* numberPattern matches the whole of the literal.
WellFormed(literal) == Len(literal) + 1 \in Range(numberPattern(literal, 1))

Occurrences(literal, c) == Cardinality({k \in DOMAIN literal : literal[k] = c})

\* What the literal is worth when the rightmost c is its decimal separator
\* and every other separator is grouping.
DecimalAt(literal, c) ==
  Norm(ToNat(SelectSeq(literal, IsDigit)), Len(literal) - LastIndexOf(literal, c))

\* What the literal is worth when all its separators are grouping.
AllGrouping(literal) == Norm(ToNat(SelectSeq(literal, IsDigit)), 0)

\* C12: parseNumber in auto mode, on a literal that numberPattern matches
\* and that holds one kind of separator only, '.' or ',', once or several
\* times: when at most two characters follow the rightmost separator, that
\* separator is the decimal separator and the others are grouping (so
\* "1,000,50" and "1.000.50" are 1000.50); otherwise all the separators are
\* grouping (so "1.000" and "1,000" are 1000).
C12_OneSeparatorKind ==
  (parsed # <<>> /\ parseFormat = "auto" /\ WellFormed(numberText)) =>
    \A c \in {".", ","} :
      (Occurrences(numberText, c) > 0
         /\ \A other \in {".", ","} \ {c} : Occurrences(numberText, other) = 0) =>
        parsed[1] = IF Len(numberText) - LastIndexOf(numberText, c) <= 2
                    THEN DecimalAt(numberText, c)
                    ELSE AllGrouping(numberText)

\* The character of the literal whose last occurrence is the later one.
LaterSeparator(literal) ==
  IF LastIndexOf(literal, ".") > LastIndexOf(literal, ",") THEN "." ELSE ","

BothSeparators(literal) == Occurrences(literal, ".") > 0 /\ Occurrences(literal, ",") > 0

\* The literal read with the character c as its decimal separator, every
\* occurrence of the other character having been stripped: the number its
\* longest prefix "digits c digits" writes.
ReadStripped(literal, c) ==
  LET stripped == RemoveAll(literal, {".", ","} \ {c})
  IN  parseFloat([k \in DOMAIN stripped |-> IF stripped[k] = c THEN "." ELSE stripped[k]])

\* C13: parseNumber in auto mode, on a literal that holds both '.' and ',':
\* the character whose last occurrence is the later one is the decimal
\* separator and every occurrence of the other is stripped as grouping;
\* when numberPattern matches the literal and that character occurs once,
\* the amount is the digits before it, then the digits after it as the
\* decimals.  So "1,000.50" and "1.000,50" are 1000.50, and detectCurrency
\* returns that amount for "$1,000.50" and for "1.000,50 " followed by the
\* euro sign.
C13_BothSeparators ==
  /\ (parsed # <<>> /\ parseFormat = "auto" /\ BothSeparators(numberText)) =>
       parsed[1] = ReadStripped(numberText, LaterSeparator(numberText))
  /\ (parsed # <<>> /\ parseFormat = "auto" /\ WellFormed(numberText)
        /\ BothSeparators(numberText)
        /\ Occurrences(numberText, LaterSeparator(numberText)) = 1) =>
       parsed[1] = DecimalAt(numberText, LaterSeparator(numberText))
  /\ (parsed # <<>> /\ parseFormat = "auto"
        /\ numberText \in {Text1000_50us, Text1000_50eu}) =>
       parsed[1] = Norm(100050, 2)
  /\ (detections # <<>> /\ parseFormat = "auto"
        /\ detections[1].text \in {<<"$">> \o Text1000_50us,
                                   Text1000_50eu \o <<" ", "U20AC">>}) =>
       /\ detections[1].result # NoDetection
       /\ detections[1].result.amount = Norm(100050, 2)

\* "1.000,50" has been parsed in auto mode, and detectCurrency has been
\* called on "1.000,50 " followed by the euro sign.
C13_Witness ==
  /\ parseFormat = "auto"
  /\ numberText = Text1000_50eu
  /\ parsed = <<Norm(100050, 2)>>
  /\ detections # <<>>
  /\ detections[1].text = Text1000_50eu \o <<" ", "U20AC">>
  /\ detections[1].result # NoDetection
  /\ detections[1].result.currencies = <<"EUR">>

\* C14: an amount of so many hundredths, written by the convention of a
\* number format (the US convention for auto), is parsed under that format
\* to the amount itself.
C14_FormatParseRoundTrip ==
  parsed # <<>> =>
    \A h \in Amounts :
      numberText \in Formats(h, parseFormat) => parsed[1] = Norm(h, 2)

\* 1,234,567.99, written by the eu convention, has been parsed under eu.
C14_Witness ==
  /\ parseFormat = "eu"
  /\ numberText = <<"1", ".", "2", "3", "4", ".", "5", "6", "7", ",", "9", "9">>
  /\ parsed = <<Norm(123456799, 2)>>

(***************************************************************************)
(* The service worker: properties.                                         *)
(***************************************************************************)
\* The codes a user can prefer, and the candidate lists of the symbol table.
PreferredCodes == {"", "USD", "AUD", "CAD", "EUR", "CNY"}

CandidateLists == {CURRENCY_SYMBOLS[k].codes : k \in DOMAIN CURRENCY_SYMBOLS}

\* ordered resolves currencies under the preferred code as the claim C11 says.
Resolves(currencies, preferred, ordered) ==
  /\ Len(ordered) = Len(currencies)
  /\ \A code \in Range(currencies) \cup Range(ordered) :
       Cardinality({k \in DOMAIN ordered : ordered[k] = code})
         = Cardinality({k \in DOMAIN currencies : currencies[k] = code})
  /\ preferred \in Range(currencies) =>
       /\ ordered[1] = preferred
       /\ SelectSeq(ordered, LAMBDA code : code # preferred)
            = SelectSeq(currencies, LAMBDA code : code # preferred)
  /\ (preferred = "" \/ preferred \notin Range(currencies) \/ currencies[1] = preferred) =>
       ordered = currencies
  /\ (currencies = <<"USD", "AUD", "CAD", "NZD", "SGD", "HKD">> /\ preferred = "AUD") =>
       ordered[1] = "AUD"

\* Every candidate list of the symbol table is resolved so under every
\* preferred code, and the page scanner picks the first of the resolved list.
ResolvesEvery ==
  \A currencies \in CandidateLists, preferred \in PreferredCodes :
    /\ Resolves(currencies, preferred, reorderCurrencies(currencies, preferred))
    /\ ResolveCurrency([currencies |-> currencies],
                       [defaultDollarCurrency |-> preferred])
         = reorderCurrencies(currencies, preferred)[1]

\* C11: the list reorderCurrencies returns is a permutation of the
\* candidates in which the preferred code is first when it is a candidate,
\* the other candidates keeping their order, and is the candidate list
\* itself when the preferred code is unset, absent or already first; for
\* the candidates of '$' and the preferred code AUD the first is AUD.  The
\* currency the page scanner picks is the first of that list.
C11_PreferredFirst ==
  /\ reordered.called =>
       Resolves(reordered.currencies, reordered.preferred, reordered.ordered)
  /\ ResolvesEvery

\* The service worker has put CAD, the third candidate of '$', first.
C11_Witness ==
  /\ reordered.called
  /\ reordered.currencies = <<"USD", "AUD", "CAD", "NZD", "SGD", "HKD">>
  /\ reordered.preferred = "CAD"
  /\ reordered.ordered = <<"CAD", "USD", "AUD", "NZD", "SGD", "HKD">>

\* C20: whenever the context menu holds an item convert_*, currentDetection
\* is not null.
C20_MenuOnlyWithDetection ==
  (\E k \in DOMAIN contextMenu : contextMenu[k].id[1] = "convert")
    => currentDetection # NoDetection

(***************************************************************************)
(* The two resolutions: properties.                                        *)
(***************************************************************************)
\* C39: for every non-empty candidate list and every preferred code, unset
\* included, the source currency the page scanner picks is the first
\* element of what reorderCurrencies returns for them.
C39_ResolutionsAgree ==
  (resolutions.scanned /\ resolutions.asked) =>
    resolutions.fromCurrency = resolutions.ordered[1]

\* Both have resolved a list of several candidates whose preferred code is
\* not the first: the scanner picked it and the worker moved it to the front.
C39_Witness ==
  /\ resolutions.scanned /\ resolutions.asked
  /\ Len(candidateList) > 1
  /\ dollarSetting \in Range(candidateList)
  /\ candidateList[1] # dollarSetting
  /\ resolutions.fromCurrency = dollarSetting
  /\ resolutions.ordered[1] = dollarSetting
=============================================================================
